---- MODULE Spec2Model ----
(***************************************************************************)
(* Model of the multi-button HomeKit accessory (examples/JP2Button/main.c): *)
(* the gesture dispatcher buttonCallback with its reset-sequence counter,   *)
(* the reset task, and the station-mode indicator driven by WiFi events.    *)
(*                                                                          *)
(* Tasks are FreeRTOS tasks.  A task step runs from one blocking call       *)
(* (vTaskDelay) to the next; the button callback is modelled statement by   *)
(* statement because the order of its statements is what some properties    *)
(* are about.  Callbacks of the button library are delivered one at a time  *)
(* on the library's own context, so a new gesture is dispatched only when   *)
(* the previous callback has returned.                                      *)
(***************************************************************************)
EXTENDS Integers, Sequences, FiniteSets

VARIABLES
  resetSequenceCount, \* static uint8_t in buttonCallback
  buttons,            \* value last notified on each channel's characteristic
  pinLED,             \* level of the LED GPIO (0 = lit, 1 = dark)
  cb,                 \* the button callback's position and locals
  tasks,              \* task control blocks, by address
  xHandle,            \* static TaskHandle_t in indicateStationMode (0 = NULL)
  restarted,          \* sdk_system_restart() has been called
  fault,              \* the firmware crashed on a dangling task handle
  gestures,           \* history: gestures dispatched so far
  resetLog,           \* history: gesture numbers at which resetConfig() ran
  notifyLog,          \* history: notifications published, in order
  wifiEvents,         \* history: WiFi events handled so far
  deleted,            \* handle the last stop handed to vTaskDelete (0 = none)
  wifiResets,         \* number of wifi_config_reset() calls
  hkResets,           \* number of homekit_server_reset() calls
  serverInits,        \* number of homekit_server_init() calls
  resetFailures,      \* reset primitives that reported a failure
  restartTrace,       \* history: the effects of the reset task that restarted
  pressLog,           \* history: channel of each gesture (kept by SpecChannels)
  ledIsNeoPixel,      \* utils.c: the LED is a colour LED
  ledShown,           \* utils.c: colour last written to the LED
  heap,               \* utils.c: the BlinkParams records on the heap
  taskArg,            \* the argument each task was created with
  blinkCalls,         \* history: number of calls of blinkInBackground
  blinkLog,           \* history: the finished feedback patterns
  identifyCalls,      \* history: number of calls of identifyDevice
  identifyDone,       \* history: number of identify patterns run to the end
  heapExhausted,      \* the rest of the firmware has used up the heap
  runLength,          \* SpecLongRun: double presses in the current run
  runResets,          \* SpecLongRun: resetConfig() calls in the current run
  switch_on,          \* Sonoff: switch_on.value.bool_value
  pinRelay,           \* Sonoff: level of the relay GPIO
  lastToggle,         \* Sonoff history: relay level before the latest single
                      \* press, <<>> after a HomeKit write
  performingPWM,      \* utils.c: bool performingPWM
  pwmRunning,         \* PWM driver: started and not stopped since
  pwmRestarted,       \* history: pwm_start() was called while PWM was running
  pwmDuty,            \* PWM driver: duty cycle last set
  utilsPin,           \* level of the GPIO Utils_Pin_LED
  ledCall,            \* position of each caller inside setLEDColor
  buttonEvent         \* paired variant: value last published per characteristic

vars == <<resetSequenceCount, buttons, pinLED, cb, tasks, xHandle, restarted,
          fault, gestures, resetLog, notifyLog, wifiEvents, deleted,
          wifiResets, hkResets, serverInits, resetFailures, restartTrace,
          pressLog,
          ledIsNeoPixel, ledShown, heap, taskArg, blinkCalls, blinkLog,
          identifyCalls, identifyDone, heapExhausted, runLength, runResets,
          switch_on, pinRelay, lastToggle, performingPWM, pwmRunning,
          pwmRestarted, pwmDuty, utilsPin, ledCall, buttonEvent>>

dispatcherVars == <<resetSequenceCount, buttons, cb, gestures, resetLog, notifyLog>>
resetVars == <<restarted, wifiResets, hkResets, resetFailures, restartTrace>>
stationVars == <<xHandle, wifiEvents, deleted, serverInits, fault>>
pairedVars == <<buttonEvent>>
blinkVars == <<ledIsNeoPixel, ledShown, heap, taskArg, blinkCalls, blinkLog>>
feedbackVars == <<identifyCalls, identifyDone, heapExhausted>>
runVars == <<runLength, runResets>>
sonoffVars == <<switch_on, pinRelay, lastToggle>>
pwmVars == <<performingPWM, pwmRunning, pwmRestarted, pwmDuty, utilsPin, ledCall>>
variantVars == <<pairedVars, pressLog, blinkVars, feedbackVars, runVars,
                 sonoffVars, pwmVars>>

-----------------------------------------------------------------------------
(* Bounds of the model *)

MaxGestures == 4
MaxEvents == 4
MaxTasks == 2
MaxBlinks == 2
MaxCycles == 3
MaxIdentifies == 1
MaxRun == 258
MaxCallers == 2

(* Program constants *)

N_BUTTONS == 4
NButtonPairs == 4
ResetSequenceThreshold == 2
UINT8_MOD == 256

Channels == 0 .. (N_BUTTONS - 1)
Pairs == 0 .. (NButtonPairs - 1)
TaskIds == 1 .. MaxTasks
Callers == 1 .. MaxCallers

button_event_single_press == "single_press"
button_event_double_press == "double_press"
button_event_long_press == "long_press"
button_event_tripple_press == "tripple_press"
button_event_other == "other"

ButtonEvents == {button_event_single_press, button_event_double_press,
                 button_event_long_press, button_event_tripple_press,
                 button_event_other}

WIFI_CONFIG_CONNECTED == "connected"
WIFI_CONFIG_DISCONNECTED == "disconnected"
WIFI_CONFIG_AP_START == "ap_start"
WIFI_CONFIG_AP_STOP == "ap_stop"

WiFiEvents == {WIFI_CONFIG_CONNECTED, WIFI_CONFIG_DISCONNECTED,
               WIFI_CONFIG_AP_START, WIFI_CONFIG_AP_STOP}

-----------------------------------------------------------------------------
(* LED *)

\* setLED(on): gpio_write(Pin_LED, on ? 0 : 1)
setLED(on) == IF on THEN 0 ELSE 1

LedLit == pinLED = 0

-----------------------------------------------------------------------------
(* Tasks *)

\* done: the effects a reset task has performed so far, in order
FreeTask == [kind |-> "free", pc |-> "none", i |-> 0, done |-> <<>>]
NewTask(kind) == [kind |-> kind, pc |-> "start", i |-> 0, done |-> <<>>]

FreeIds == {t \in TaskIds : tasks[t].kind = "free"}
TasksOf(kind) == {t \in TaskIds : tasks[t].kind = kind}

\* xTaskCreate: the set of outcomes <<tasks after the call, handle written>>.
\* The new control block may land at any free address; with no memory left
\* the call fails, creates nothing and leaves the caller's handle alone (0).
xTaskCreate(kind) ==
  IF FreeIds = {}
    THEN {<<tasks, 0>>}
    ELSE {<<[tasks EXCEPT ![t] = NewTask(kind)], t>> : t \in FreeIds}

Running == ~restarted /\ ~fault

\* A task that is not inside setLEDColor and has not called it yet
IdleCall == [pc |-> "idle", color |-> 0]

\* The heap cells that can hold a BlinkParams record
ParamIds == 1..(MaxTasks + 1)
NoParams == [used |-> FALSE, color |-> 0, cycles |-> 0, delayMillis |-> 0]

-----------------------------------------------------------------------------
(* Initial state: after user_init *)

IdleCallback == [pc |-> "idle", event |-> "none", button |-> 0,
                 i |-> 0, cycles |-> 0, lit |-> 0]

Init ==
  /\ resetSequenceCount = 0
  /\ buttons = [c \in Channels |-> 0]
  /\ pinLED = setLED(FALSE)
  /\ cb = IdleCallback
  /\ tasks = [t \in TaskIds |-> FreeTask]
  /\ xHandle = 0
  /\ restarted = FALSE
  /\ fault = FALSE
  /\ gestures = <<>>
  /\ resetLog = {}
  /\ notifyLog = <<>>
  /\ wifiEvents = <<>>
  /\ deleted = 0
  /\ wifiResets = 0
  /\ hkResets = 0
  /\ serverInits = 0
  /\ resetFailures = {}
  /\ restartTrace = <<>>
  /\ pressLog = <<>>
  /\ ledIsNeoPixel = FALSE
  /\ ledShown = 0
  /\ heap = [p \in ParamIds |-> NoParams]
  /\ taskArg = [t \in TaskIds |-> 0]
  /\ blinkCalls = 0
  /\ blinkLog = {}
  /\ identifyCalls = 0
  /\ identifyDone = 0
  /\ heapExhausted = FALSE
  /\ runLength = 0
  /\ runResets = 0
  /\ switch_on = FALSE
  /\ pinRelay = FALSE
  /\ lastToggle = <<>>
  /\ performingPWM = FALSE
  /\ pwmRunning = FALSE
  /\ pwmRestarted = FALSE
  /\ pwmDuty = 0
  /\ utilsPin = 0
  /\ ledCall = [c \in Callers |-> IdleCall]
  /\ buttonEvent = [p \in Pairs |-> p]

-----------------------------------------------------------------------------
(* Gesture dispatcher: buttonCallback *)

\* Variant of NotifyValue: the long press publishes the paired variants' value
NotifyValue_LongAsTriple(event) ==
  CASE event = button_event_single_press -> 0
    [] event = button_event_long_press -> 2
    [] event = button_event_tripple_press -> 2

\* Value published for a gesture (HOMEKIT_UINT8 argument of the branch)
NotifyValue(event) ==
  CASE event = button_event_single_press -> 0
    [] event = button_event_long_press -> 1
    [] event = button_event_tripple_press -> 2

\* First argument of the branch's blinkIt call
BlinkCycles(event) ==
  CASE event = button_event_single_press -> 1
    [] event = button_event_long_press -> 2
    [] event = button_event_tripple_press -> 3

NotifyingEvents == {button_event_single_press, button_event_long_press,
                    button_event_tripple_press}

\* Variant of CountAfter: the final else branch forgets to clear the counter
CountAfter_ElseKeeps(event, count) ==
  IF event = button_event_double_press
    THEN (count + 1) % UINT8_MOD
    ELSE IF event \in NotifyingEvents THEN 0 ELSE count

\* resetSequenceCount after the first statement of the branch taken
CountAfter(event, count) ==
  IF event = button_event_double_press
    THEN (count + 1) % UINT8_MOD
    ELSE 0

\* Where the callback continues after that statement
PcAfter(event) ==
  CASE event \in NotifyingEvents -> "notify"
    [] event = button_event_double_press -> "check"
    [] OTHER -> "idle"

\* Variant of ReachedThreshold: the comparison is one too low
ReachedThreshold_OneEarly(count) == count = ResetSequenceThreshold - 1

\* Variant of ReachedThreshold: the comparison is one too high
ReachedThreshold_OneLate(count) == count = ResetSequenceThreshold + 1

\* The decision of the double-press branch: does it call resetConfig()?
ReachedThreshold(count) == count = ResetSequenceThreshold

\* Variant of buttonCallback: a run of double presses is counted per button
buttonCallback_PerButton(b, event) ==
  /\ Running
  /\ cb.pc = "idle"
  /\ Len(gestures) < MaxGestures
  /\ gestures' = Append(gestures, event)
  /\ resetSequenceCount' = CountAfter(event, IF b = cb.button THEN resetSequenceCount ELSE 0)
  /\ cb' = [pc |-> PcAfter(event), event |-> event, button |-> b,
            i |-> 0, cycles |-> 0, lit |-> 0]
  /\ UNCHANGED <<buttons, pinLED, tasks, resetLog, notifyLog>>
  /\ UNCHANGED resetVars
  /\ UNCHANGED stationVars
  /\ UNCHANGED <<pairedVars, blinkVars, feedbackVars, runVars, sonoffVars, pwmVars>>

\* The callback is entered with (event, &buttons[b]); the branch is selected
\* and its first statement, the update of resetSequenceCount, is executed.
\* The caller says whether the channel is recorded in pressLog.
buttonCallback(b, event) ==
  /\ Running
  /\ cb.pc = "idle"
  /\ Len(gestures) < MaxGestures
  /\ gestures' = Append(gestures, event)
  /\ resetSequenceCount' = CountAfter(event, resetSequenceCount)
  /\ cb' = [pc |-> PcAfter(event), event |-> event, button |-> b,
            i |-> 0, cycles |-> 0, lit |-> 0]
  /\ UNCHANGED <<buttons, pinLED, tasks, resetLog, notifyLog>>
  /\ UNCHANGED resetVars
  /\ UNCHANGED stationVars
  /\ UNCHANGED <<pairedVars, blinkVars, feedbackVars, runVars, sonoffVars, pwmVars>>

\* homekit_characteristic_notify(button, HOMEKIT_UINT8(v)), then blinkIt is called
buttonCallbackNotify ==
  /\ Running
  /\ cb.pc = "notify"
  /\ buttons' = [buttons EXCEPT ![cb.button] = NotifyValue(cb.event)]
  /\ notifyLog' = Append(notifyLog, <<cb.button, NotifyValue(cb.event)>>)
  /\ cb' = [cb EXCEPT !.pc = "blink", !.cycles = BlinkCycles(cb.event)]
  /\ UNCHANGED <<resetSequenceCount, pinLED, tasks, gestures, resetLog>>
  /\ UNCHANGED resetVars
  /\ UNCHANGED stationVars
  /\ UNCHANGED variantVars

\* resetConfig(): xTaskCreate(resetConfigTask, ..., NULL)
resetConfig ==
  /\ \E r \in xTaskCreate("reset") : tasks' = r[1]
  /\ resetLog' = resetLog \cup {Len(gestures)}

\* Variant of buttonCallbackCheck: the double-press branch also publishes the
\* "Double Press" value on its channel
buttonCallbackCheck_Notifies ==
  /\ Running
  /\ cb.pc = "check"
  /\ IF ReachedThreshold(resetSequenceCount)
       THEN resetConfig
       ELSE UNCHANGED <<tasks, resetLog>>
  /\ buttons' = [buttons EXCEPT ![cb.button] = 1]
  /\ notifyLog' = Append(notifyLog, <<cb.button, 1>>)
  /\ cb' = [cb EXCEPT !.pc = "idle"]
  /\ UNCHANGED <<resetSequenceCount, pinLED, gestures>>
  /\ UNCHANGED resetVars
  /\ UNCHANGED stationVars
  /\ UNCHANGED variantVars

\* Variant of buttonCallbackCheck: the counter is cleared when the reset is invoked
buttonCallbackCheck_ClearsCount ==
  /\ Running
  /\ cb.pc = "check"
  /\ IF ReachedThreshold(resetSequenceCount)
       THEN resetConfig /\ resetSequenceCount' = 0
       ELSE UNCHANGED <<tasks, resetLog, resetSequenceCount>>
  /\ cb' = [cb EXCEPT !.pc = "idle"]
  /\ UNCHANGED <<buttons, pinLED, gestures, notifyLog>>
  /\ UNCHANGED resetVars
  /\ UNCHANGED stationVars
  /\ UNCHANGED variantVars

\* if (resetSequenceCount == ResetSequenceThreshold) resetConfig();
buttonCallbackCheck ==
  /\ Running
  /\ cb.pc = "check"
  /\ IF ReachedThreshold(resetSequenceCount)
       THEN resetConfig
       ELSE UNCHANGED <<tasks, resetLog>>
  /\ cb' = [cb EXCEPT !.pc = "idle"]
  /\ UNCHANGED <<resetSequenceCount, buttons, pinLED, gestures, notifyLog>>
  /\ UNCHANGED resetVars
  /\ UNCHANGED stationVars
  /\ UNCHANGED variantVars

\* blinkIt(cycles, delayMillis) run by the callback itself:
\*   for (i = 0; i < cycles; i++) { setLED(true); delay; setLED(false); delay; }
\* "blink": at the loop test; "d1": in the first delay; "d2": in the second.
buttonCallbackBlink ==
  /\ Running
  /\ \/ /\ cb.pc = "blink"
        /\ IF cb.i < cb.cycles
             THEN /\ pinLED' = setLED(TRUE)
                  /\ cb' = [cb EXCEPT !.pc = "d1", !.lit = @ + 1]
             ELSE /\ cb' = [cb EXCEPT !.pc = "idle"]
                  /\ UNCHANGED pinLED
     \/ /\ cb.pc = "d1"
        /\ pinLED' = setLED(FALSE)
        /\ cb' = [cb EXCEPT !.pc = "d2"]
     \/ /\ cb.pc = "d2"
        /\ cb' = [cb EXCEPT !.pc = "blink", !.i = @ + 1]
        /\ UNCHANGED pinLED
  /\ UNCHANGED <<resetSequenceCount, buttons, tasks, gestures, resetLog, notifyLog>>
  /\ UNCHANGED resetVars
  /\ UNCHANGED stationVars
  /\ UNCHANGED variantVars

-----------------------------------------------------------------------------
(* Reset action: resetConfigTask *)

\* blinkIt(5, 100); wifi_config_reset(); delayMS(1000);
\* homekit_server_reset(); delayMS(1000); sdk_system_restart();
ResetBlinkCycles == 5

\* Variant of resetConfigTask: the pairing reset is called before the WiFi reset
resetConfigTask_PairingFirst(t) ==
  /\ Running
  /\ tasks[t].kind = "reset"
  /\ \/ /\ tasks[t].pc = "start"
        /\ pinLED' = setLED(TRUE)
        /\ tasks' = [tasks EXCEPT ![t].pc = "d1", ![t].done = Append(@, "led_on")]
        /\ UNCHANGED resetVars
     \/ /\ tasks[t].pc = "d1"
        /\ pinLED' = setLED(FALSE)
        /\ tasks' = [tasks EXCEPT ![t].pc = "d2", ![t].done = Append(@, "led_off")]
        /\ UNCHANGED resetVars
     \/ /\ tasks[t].pc = "d2"
        /\ tasks[t].i + 1 < ResetBlinkCycles
        /\ pinLED' = setLED(TRUE)
        /\ tasks' = [tasks EXCEPT ![t].pc = "d1", ![t].i = @ + 1,
                                  ![t].done = Append(@, "led_on")]
        /\ UNCHANGED resetVars
     \/ /\ tasks[t].pc = "d2"
        /\ tasks[t].i + 1 >= ResetBlinkCycles
        /\ hkResets' = hkResets + 1
        /\ \E ok \in BOOLEAN :
             resetFailures' = IF ok THEN resetFailures
                              ELSE resetFailures \cup {"homekit_server_reset"}
        /\ tasks' = [tasks EXCEPT ![t].pc = "wifi_done", ![t].i = 0,
                                  ![t].done = Append(@, "homekit_server_reset")]
        /\ UNCHANGED <<pinLED, restarted, restartTrace, wifiResets>>
     \/ /\ tasks[t].pc = "wifi_done"
        /\ wifiResets' = wifiResets + 1
        /\ \E ok \in BOOLEAN :
             resetFailures' = IF ok THEN resetFailures
                              ELSE resetFailures \cup {"wifi_config_reset"}
        /\ tasks' = [tasks EXCEPT ![t].pc = "hk_done",
                                  ![t].done = Append(@, "wifi_config_reset")]
        /\ UNCHANGED <<pinLED, restarted, restartTrace, hkResets>>
     \/ /\ tasks[t].pc = "hk_done"
        /\ restarted' = TRUE
        /\ restartTrace' = Append(tasks[t].done, "sdk_system_restart")
        /\ tasks' = [tasks EXCEPT ![t] = FreeTask]
        /\ UNCHANGED <<pinLED, wifiResets, hkResets, resetFailures>>
  /\ UNCHANGED dispatcherVars
  /\ UNCHANGED stationVars
  /\ UNCHANGED variantVars

\* Variant of resetConfigTask: the restart is skipped when a primitive failed
resetConfigTask_AbortOnFailure(t) ==
  /\ Running
  /\ tasks[t].kind = "reset"
  /\ \/ /\ tasks[t].pc = "start"
        /\ pinLED' = setLED(TRUE)
        /\ tasks' = [tasks EXCEPT ![t].pc = "d1", ![t].done = Append(@, "led_on")]
        /\ UNCHANGED resetVars
     \/ /\ tasks[t].pc = "d1"
        /\ pinLED' = setLED(FALSE)
        /\ tasks' = [tasks EXCEPT ![t].pc = "d2", ![t].done = Append(@, "led_off")]
        /\ UNCHANGED resetVars
     \/ /\ tasks[t].pc = "d2"
        /\ tasks[t].i + 1 < ResetBlinkCycles
        /\ pinLED' = setLED(TRUE)
        /\ tasks' = [tasks EXCEPT ![t].pc = "d1", ![t].i = @ + 1,
                                  ![t].done = Append(@, "led_on")]
        /\ UNCHANGED resetVars
     \/ /\ tasks[t].pc = "d2"
        /\ tasks[t].i + 1 >= ResetBlinkCycles
        /\ wifiResets' = wifiResets + 1
        /\ \E ok \in BOOLEAN :
             resetFailures' = IF ok THEN resetFailures
                              ELSE resetFailures \cup {"wifi_config_reset"}
        /\ tasks' = [tasks EXCEPT ![t].pc = "wifi_done", ![t].i = 0,
                                  ![t].done = Append(@, "wifi_config_reset")]
        /\ UNCHANGED <<pinLED, restarted, restartTrace, hkResets>>
     \/ /\ tasks[t].pc = "wifi_done"
        /\ hkResets' = hkResets + 1
        /\ \E ok \in BOOLEAN :
             resetFailures' = IF ok THEN resetFailures
                              ELSE resetFailures \cup {"homekit_server_reset"}
        /\ tasks' = [tasks EXCEPT ![t].pc = "hk_done",
                                  ![t].done = Append(@, "homekit_server_reset")]
        /\ UNCHANGED <<pinLED, restarted, restartTrace, wifiResets>>
     \/ /\ tasks[t].pc = "hk_done"
        /\ resetFailures = {}
        /\ restarted' = TRUE
        /\ restartTrace' = Append(tasks[t].done, "sdk_system_restart")
        /\ tasks' = [tasks EXCEPT ![t] = FreeTask]
        /\ UNCHANGED <<pinLED, wifiResets, hkResets, resetFailures>>
  /\ UNCHANGED dispatcherVars
  /\ UNCHANGED stationVars
  /\ UNCHANGED variantVars

\* resetConfigTask, one step from blocking call to blocking call
resetConfigTask(t) ==
  /\ Running
  /\ tasks[t].kind = "reset"
  /\ \/ /\ tasks[t].pc = "start"
        /\ pinLED' = setLED(TRUE)
        /\ tasks' = [tasks EXCEPT ![t].pc = "d1", ![t].done = Append(@, "led_on")]
        /\ UNCHANGED resetVars
     \/ /\ tasks[t].pc = "d1"
        /\ pinLED' = setLED(FALSE)
        /\ tasks' = [tasks EXCEPT ![t].pc = "d2", ![t].done = Append(@, "led_off")]
        /\ UNCHANGED resetVars
     \/ /\ tasks[t].pc = "d2"
        /\ tasks[t].i + 1 < ResetBlinkCycles
        /\ pinLED' = setLED(TRUE)
        /\ tasks' = [tasks EXCEPT ![t].pc = "d1", ![t].i = @ + 1,
                                  ![t].done = Append(@, "led_on")]
        /\ UNCHANGED resetVars
     \/ /\ tasks[t].pc = "d2"
        /\ tasks[t].i + 1 >= ResetBlinkCycles
        /\ wifiResets' = wifiResets + 1
        /\ \E ok \in BOOLEAN :
             resetFailures' = IF ok THEN resetFailures
                              ELSE resetFailures \cup {"wifi_config_reset"}
        /\ tasks' = [tasks EXCEPT ![t].pc = "wifi_done", ![t].i = 0,
                                  ![t].done = Append(@, "wifi_config_reset")]
        /\ UNCHANGED <<pinLED, restarted, restartTrace, hkResets>>
     \/ /\ tasks[t].pc = "wifi_done"
        /\ hkResets' = hkResets + 1
        /\ \E ok \in BOOLEAN :
             resetFailures' = IF ok THEN resetFailures
                              ELSE resetFailures \cup {"homekit_server_reset"}
        /\ tasks' = [tasks EXCEPT ![t].pc = "hk_done",
                                  ![t].done = Append(@, "homekit_server_reset")]
        /\ UNCHANGED <<pinLED, restarted, restartTrace, wifiResets>>
     \/ /\ tasks[t].pc = "hk_done"
        /\ restarted' = TRUE
        /\ restartTrace' = Append(tasks[t].done, "sdk_system_restart")
        /\ tasks' = [tasks EXCEPT ![t] = FreeTask]
        /\ UNCHANGED <<pinLED, wifiResets, hkResets, resetFailures>>
  /\ UNCHANGED dispatcherVars
  /\ UNCHANGED stationVars
  /\ UNCHANGED variantVars

-----------------------------------------------------------------------------
(* Identify pattern on the LED pin (the main.c of each variant) *)

IdentifyPinRounds == 3

\* identifyDevice(_value): xTaskCreate(identifyDeviceTask, ..., NULL)
identifyDevicePin ==
  /\ Running
  /\ identifyCalls < MaxIdentifies
  /\ identifyCalls' = identifyCalls + 1
  /\ \E r \in xTaskCreate("pin_identify") : tasks' = r[1]
  /\ UNCHANGED <<identifyDone, heapExhausted, pinLED>>
  /\ UNCHANGED <<dispatcherVars, resetVars, stationVars, pairedVars, pressLog,
                 blinkVars, runVars, sonoffVars, pwmVars>>

\* identifyDeviceTask: for (i = 0; i < 3; i++) { blinkIt(cycles, ms);
\* delayMS(ms2); }  setLED(final); vTaskDelete(NULL).  A step runs from one
\* delay to the next: "start" is the task's entry, "d1" and "d2" are the two
\* delays of a blinkIt cycle, "pause" is the delay after a round; i counts the
\* cycles completed.
identifyDevicePinTask(t, cycles, final) ==
  /\ Running
  /\ tasks[t].kind = "pin_identify"
  /\ \/ /\ tasks[t].pc = "start"
        /\ pinLED' = setLED(TRUE)
        /\ tasks' = [tasks EXCEPT ![t].pc = "d1"]
        /\ UNCHANGED identifyDone
     \/ /\ tasks[t].pc = "d1"
        /\ pinLED' = setLED(FALSE)
        /\ tasks' = [tasks EXCEPT ![t].pc = "d2"]
        /\ UNCHANGED identifyDone
     \/ /\ tasks[t].pc = "d2"
        /\ (tasks[t].i + 1) % cycles # 0
        /\ pinLED' = setLED(TRUE)
        /\ tasks' = [tasks EXCEPT ![t].pc = "d1", ![t].i = @ + 1]
        /\ UNCHANGED identifyDone
     \/ /\ tasks[t].pc = "d2"
        /\ (tasks[t].i + 1) % cycles = 0
        /\ tasks' = [tasks EXCEPT ![t].pc = "pause", ![t].i = @ + 1]
        /\ UNCHANGED <<pinLED, identifyDone>>
     \/ /\ tasks[t].pc = "pause"
        /\ tasks[t].i < IdentifyPinRounds * cycles
        /\ pinLED' = setLED(TRUE)
        /\ tasks' = [tasks EXCEPT ![t].pc = "d1"]
        /\ UNCHANGED identifyDone
     \/ /\ tasks[t].pc = "pause"
        /\ tasks[t].i >= IdentifyPinRounds * cycles
        /\ pinLED' = setLED(final)
        /\ tasks' = [tasks EXCEPT ![t] = FreeTask]
        /\ identifyDone' = identifyDone + 1
  /\ UNCHANGED <<identifyCalls, heapExhausted>>
  /\ UNCHANGED <<dispatcherVars, resetVars, stationVars, pairedVars, pressLog,
                 blinkVars, runVars, sonoffVars, pwmVars>>

\* JP2Button: identifyDevice and identifyDeviceTask with blinkIt(2, 200)
JP2IdentifyCycles == 2
JP2_identifyDevice == identifyDevicePin
JP2_identifyDeviceTask(t) == identifyDevicePinTask(t, JP2IdentifyCycles, FALSE)

\* JPmbutton: identifyDevice and identifyDeviceTask with blinkIt(3, 100)
JPmIdentifyCycles == 3
JPm_identifyDevice == identifyDevicePin
JPm_identifyDeviceTask(t) == identifyDevicePinTask(t, JPmIdentifyCycles, FALSE)

\* The inputs delivered so far (gestures, identify requests, WiFi events)
\* are fewer than the bound on inputs
MayDeliver == Len(gestures) + identifyCalls + Len(wifiEvents) < MaxGestures

-----------------------------------------------------------------------------
(* The dispatcher with its reset action *)

Next ==
  \/ /\ MayDeliver
     /\ \E b \in Channels, event \in ButtonEvents :
          buttonCallback(b, event) /\ UNCHANGED pressLog
  \/ buttonCallbackNotify
  \/ buttonCallbackCheck
  \/ buttonCallbackBlink
  \/ \E t \in TaskIds : resetConfigTask(t)
  \/ MayDeliver /\ JP2_identifyDevice
  \/ \E t \in TaskIds : JP2_identifyDeviceTask(t)

Spec == Init /\ [][Next]_vars

\* The dispatcher driven by the gestures of one button (channel 0), with the
\* scheduler's guarantee that every ready task runs: a reset task that is
\* ready, or whose delay has expired, eventually takes its next step.
NextOneChannel ==
  \/ \E event \in ButtonEvents : buttonCallback(0, event) /\ UNCHANGED pressLog
  \/ buttonCallbackNotify
  \/ buttonCallbackCheck
  \/ buttonCallbackBlink
  \/ \E t \in TaskIds : resetConfigTask(t)

SpecResetFair ==
  /\ Init
  /\ [][NextOneChannel]_vars
  /\ \A t \in TaskIds : WF_vars(resetConfigTask(t))

\* The dispatcher driven by two of the buttons, recording which button each
\* gesture was raised on
LoggedChannels == {0, 1}

NextChannels ==
  \/ \E b \in LoggedChannels, event \in ButtonEvents :
       buttonCallback(b, event) /\ pressLog' = Append(pressLog, b)
  \/ buttonCallbackNotify
  \/ buttonCallbackCheck
  \/ buttonCallbackBlink
  \/ \E t \in TaskIds : resetConfigTask(t)

SpecChannels == Init /\ [][NextChannels]_vars

-----------------------------------------------------------------------------
(* Station-mode indicator *)

StationBlinkCycles == 4

\* indicateStationModeTask: while (true) { blinkIt(4, 250); delayMS(1000); }
\* "start"/"pause": about to call blinkIt; "d1", "d2": in blinkIt's delays.
indicateStationModeTask(t) ==
  /\ Running
  /\ tasks[t].kind = "station"
  /\ \/ /\ tasks[t].pc \in {"start", "pause"}
        /\ pinLED' = setLED(TRUE)
        /\ tasks' = [tasks EXCEPT ![t].pc = "d1", ![t].i = 0]
     \/ /\ tasks[t].pc = "d1"
        /\ pinLED' = setLED(FALSE)
        /\ tasks' = [tasks EXCEPT ![t].pc = "d2"]
     \/ /\ tasks[t].pc = "d2"
        /\ tasks[t].i + 1 < StationBlinkCycles
        /\ pinLED' = setLED(TRUE)
        /\ tasks' = [tasks EXCEPT ![t].pc = "d1", ![t].i = @ + 1]
     \/ /\ tasks[t].pc = "d2"
        /\ tasks[t].i + 1 >= StationBlinkCycles
        /\ tasks' = [tasks EXCEPT ![t].pc = "pause", ![t].i = 0]
        /\ UNCHANGED pinLED
  /\ UNCHANGED dispatcherVars
  /\ UNCHANGED resetVars
  /\ UNCHANGED stationVars
  /\ UNCHANGED variantVars

\* vTaskDelete(h) for a non-NULL h: the outcomes <<tasks after, crashed>>.
\* A handle whose control block holds a task deletes that task, whichever
\* task now lives at the address.  A handle whose control block was already
\* freed is a dangling pointer: the call may find nothing to unlink, or crash.
vTaskDelete(h) ==
  IF tasks[h].kind # "free"
    THEN {<<[tasks EXCEPT ![h] = FreeTask], FALSE>>}
    ELSE {<<tasks, FALSE>>, <<tasks, TRUE>>}

\* The test guarding the deletion in the stop branch
HandleSet(h) == h # 0

\* Variant of indicateStationMode: the stop branch only switches the LED off
indicateStationMode_StopKeepsTask(on) ==
  IF on
    THEN /\ \E r \in xTaskCreate("station") :
              /\ tasks' = r[1]
              /\ xHandle' = IF r[2] # 0 THEN r[2] ELSE xHandle
         /\ UNCHANGED <<pinLED, deleted, fault>>
    ELSE /\ deleted' = 0
         /\ pinLED' = setLED(FALSE)
         /\ UNCHANGED <<tasks, xHandle, fault>>

\* indicateStationMode(on)
indicateStationMode(on) ==
  IF on
    THEN /\ \E r \in xTaskCreate("station") :
              /\ tasks' = r[1]
              /\ xHandle' = IF r[2] # 0 THEN r[2] ELSE xHandle
         /\ UNCHANGED <<pinLED, deleted, fault>>
    ELSE IF HandleSet(xHandle)
      THEN /\ deleted' = xHandle
           /\ \E r \in vTaskDelete(xHandle) :
                /\ tasks' = r[1]
                /\ fault' = r[2]
                /\ pinLED' = IF r[2] THEN pinLED ELSE setLED(FALSE)
           /\ UNCHANGED xHandle
      ELSE /\ deleted' = 0
           /\ pinLED' = setLED(FALSE)
           /\ UNCHANGED <<tasks, xHandle, fault>>

\* Variant of handleWiFiEvent: the disconnected case lacks its break and falls
\* through to the start of the indicator
handleWiFiEvent_FallsThrough(event) ==
  /\ Running
  /\ Len(wifiEvents) < MaxEvents
  /\ wifiEvents' = Append(wifiEvents, event)
  /\ CASE event = WIFI_CONFIG_CONNECTED ->
            /\ serverInits' = serverInits + 1
            /\ UNCHANGED <<pinLED, tasks, xHandle, deleted, fault>>
       [] event = WIFI_CONFIG_DISCONNECTED ->
            /\ indicateStationMode(TRUE)
            /\ UNCHANGED serverInits
       [] event = WIFI_CONFIG_AP_START ->
            /\ indicateStationMode(TRUE)
            /\ UNCHANGED serverInits
       [] event = WIFI_CONFIG_AP_STOP ->
            /\ indicateStationMode(FALSE)
            /\ UNCHANGED serverInits
  /\ UNCHANGED dispatcherVars
  /\ UNCHANGED resetVars
  /\ UNCHANGED variantVars

\* handleWiFiEvent(event)
handleWiFiEvent(event) ==
  /\ Running
  /\ Len(wifiEvents) < MaxEvents
  /\ wifiEvents' = Append(wifiEvents, event)
  /\ CASE event = WIFI_CONFIG_CONNECTED ->
            /\ serverInits' = serverInits + 1
            /\ UNCHANGED <<pinLED, tasks, xHandle, deleted, fault>>
       [] event = WIFI_CONFIG_DISCONNECTED ->
            UNCHANGED <<pinLED, tasks, xHandle, deleted, fault, serverInits>>
       [] event = WIFI_CONFIG_AP_START ->
            /\ indicateStationMode(TRUE)
            /\ UNCHANGED serverInits
       [] event = WIFI_CONFIG_AP_STOP ->
            /\ indicateStationMode(FALSE)
            /\ UNCHANGED serverInits
  /\ UNCHANGED dispatcherVars
  /\ UNCHANGED resetVars
  /\ UNCHANGED variantVars

NextStation ==
  \/ \E event \in WiFiEvents : handleWiFiEvent(event)
  \/ \E t \in TaskIds : indicateStationModeTask(t)

SpecStation == Init /\ [][NextStation]_vars

-----------------------------------------------------------------------------
(* Paired-button variant (examples/JPmbutton/main.c): an ON and an OFF button *)
(* per programmable switch                                                    *)

MaxPairedGestures == 3

\* buttonEvent[] is an array of pointers to heap-allocated characteristics:
\* CellAddr(p) is &buttonEvent[p], CharAddr(p) is buttonEvent[p] itself.
CellAddr(p) == <<"buttonEvent_cell", p>>
CharAddr(p) == <<"characteristic", p>>
IsCharacteristic(a) == a[1] = "characteristic"

\* The context handed to button_create for both buttons of pair p
RegisteredContext(p) == CellAddr(p)

\* homekit_characteristic_t* button = (homekit_characteristic_t*)context;
CallbackTarget(context) == context

\* homekit_characteristic_notify(target, HOMEKIT_UINT8(v)).  On a
\* characteristic it publishes v.  On any other address the library reads a
\* callback list out of memory that is not a characteristic: it may find no
\* subscriber and publish nothing, or crash.
homekit_characteristic_notify(target, v) ==
  IF IsCharacteristic(target)
    THEN /\ buttonEvent' = [buttonEvent EXCEPT ![target[2]] = v]
         /\ notifyLog' = Append(notifyLog, <<target, v>>)
         /\ UNCHANGED fault
    ELSE /\ UNCHANGED <<buttonEvent, notifyLog>>
         /\ fault' \in BOOLEAN

PairedCallbackFrame ==
  UNCHANGED <<resetSequenceCount, buttons, pinLED, xHandle, wifiEvents,
              deleted, serverInits, restarted, wifiResets, hkResets,
              resetFailures, restartTrace, pressLog, blinkVars, feedbackVars,
              runVars, sonoffVars, pwmVars>>

\* onButtonCallback(event, context) of pair p: notify, then call blinkIt
onButtonCallback(p, event) ==
  /\ Running
  /\ cb.pc = "idle"
  /\ Len(gestures) < MaxPairedGestures
  /\ gestures' = Append(gestures, <<"on", event>>)
  /\ CASE event = button_event_single_press ->
            /\ homekit_characteristic_notify(CallbackTarget(RegisteredContext(p)), 0)
            /\ cb' = [pc |-> "blink", event |-> event, button |-> p,
                      i |-> 0, cycles |-> 1, lit |-> 0]
       [] event = button_event_long_press ->
            /\ homekit_characteristic_notify(CallbackTarget(RegisteredContext(p)), 2)
            /\ cb' = [pc |-> "blink", event |-> event, button |-> p,
                      i |-> 0, cycles |-> 2, lit |-> 0]
       [] OTHER ->
            /\ cb' = [pc |-> "idle", event |-> event, button |-> p,
                      i |-> 0, cycles |-> 0, lit |-> 0]
            /\ UNCHANGED <<buttonEvent, notifyLog, fault>>
  /\ UNCHANGED <<tasks, resetLog>>
  /\ PairedCallbackFrame

\* offButtonCallback(event, context) of pair p
offButtonCallback(p, event) ==
  /\ Running
  /\ cb.pc = "idle"
  /\ Len(gestures) < MaxPairedGestures
  /\ gestures' = Append(gestures, <<"off", event>>)
  /\ CASE event = button_event_single_press ->
            /\ homekit_characteristic_notify(CallbackTarget(RegisteredContext(p)), 1)
            /\ cb' = [pc |-> "blink", event |-> event, button |-> p,
                      i |-> 0, cycles |-> 3, lit |-> 0]
            /\ UNCHANGED <<tasks, resetLog>>
       [] event = button_event_long_press ->
            /\ \E r \in xTaskCreate("reset") : tasks' = r[1]
            /\ resetLog' = resetLog \cup {Len(gestures) + 1}
            /\ cb' = [pc |-> "idle", event |-> event, button |-> p,
                      i |-> 0, cycles |-> 0, lit |-> 0]
            /\ UNCHANGED <<buttonEvent, notifyLog, fault>>
       [] OTHER ->
            /\ cb' = [pc |-> "idle", event |-> event, button |-> p,
                      i |-> 0, cycles |-> 0, lit |-> 0]
            /\ UNCHANGED <<buttonEvent, notifyLog, fault, tasks, resetLog>>
  /\ PairedCallbackFrame

\* The inputs delivered so far (gestures, identify requests, WiFi events)
\* are fewer than the bound on the inputs of the paired variant
MayDeliverPaired ==
  Len(gestures) + identifyCalls + Len(wifiEvents) < MaxPairedGestures

\* JPmbutton's handleWiFiEvent, indicateStationMode and indicateStationModeTask
\* are those of JP2Button but for the length of the delay in blinkIt(4, 125)
NextPaired ==
  \/ /\ MayDeliverPaired
     /\ \E p \in Pairs, event \in ButtonEvents : onButtonCallback(p, event)
  \/ /\ MayDeliverPaired
     /\ \E p \in Pairs, event \in ButtonEvents : offButtonCallback(p, event)
  \/ buttonCallbackBlink
  \/ \E t \in TaskIds : resetConfigTask(t)
  \/ MayDeliverPaired /\ JPm_identifyDevice
  \/ \E t \in TaskIds : JPm_identifyDeviceTask(t)
  \/ /\ MayDeliverPaired
     /\ \E event \in WiFiEvents : handleWiFiEvent(event)
  \/ \E t \in TaskIds : indicateStationModeTask(t)

SpecPaired == Init /\ [][NextPaired]_vars

-----------------------------------------------------------------------------
(* Feedback patterns in the background (examples/JPmbutton/utils.c) *)

LED_WHITE == 16777215
LED_BLACK == 0
LED_PURPLE == 11928572
Colors == {LED_WHITE, LED_PURPLE}
Delays == {50}

\* An operation of a pattern: setLEDColor(color) or delayMS(delayMillis)
SetOp(color) == <<"setLEDColor", color>>
WaitOp(delayMillis) == <<"delayMS", delayMillis>>

\* The state of the LED and of its drivers
ledVars == <<ledShown, utilsPin, performingPWM, pwmRunning, pwmRestarted, pwmDuty>>

\* gray = ((color >> 16) + ((color >> 8) & 0xff) + (color & 0xff)) / 3
Gray(color) ==
  ((color \div 65536) + ((color \div 256) % 256) + (color % 256)) \div 3

\* dutyCycle = (UINT16_MAX * gray) / 255
UINT16_MAX == 65535
DutyCycle(color) == (UINT16_MAX * Gray(color)) \div 255

\* setLEDColor(color), run from entry to return without being preempted:
\* ws2812_set on a colour LED; on a mono LED gpio_write(pin, 1) for LED_WHITE,
\* pwm_stop() if PWM is on and gpio_write(pin, 0) for LED_BLACK, and
\* pwm_set_duty() with pwm_start() if PWM is off for any other colour
setLEDColorWhole(color) ==
  /\ ledShown' = color
  /\ CASE ledIsNeoPixel ->
            UNCHANGED <<utilsPin, performingPWM, pwmRunning, pwmRestarted, pwmDuty>>
       [] ~ledIsNeoPixel /\ color = LED_WHITE ->
            /\ utilsPin' = 1
            /\ UNCHANGED <<performingPWM, pwmRunning, pwmRestarted, pwmDuty>>
       [] ~ledIsNeoPixel /\ color = LED_BLACK ->
            /\ utilsPin' = 0
            /\ performingPWM' = FALSE
            /\ pwmRunning' = IF performingPWM THEN FALSE ELSE pwmRunning
            /\ UNCHANGED <<pwmRestarted, pwmDuty>>
       [] OTHER ->
            /\ pwmDuty' = DutyCycle(color)
            /\ performingPWM' = TRUE
            /\ pwmRunning' = IF performingPWM THEN pwmRunning ELSE TRUE
            /\ pwmRestarted' = IF performingPWM THEN pwmRestarted
                               ELSE (pwmRestarted \/ pwmRunning)
            /\ UNCHANGED utilsPin

\* The calls of setLEDColor a step of a task makes: none, or one
setLEDColors(colors) ==
  IF colors = <<>> THEN UNCHANGED ledVars ELSE setLEDColorWhole(colors[1])

\* prepLED(ledPin, isNeoPixel): called before any pattern is requested
prepLED(isNeoPixel) ==
  /\ Running
  /\ blinkCalls = 0
  /\ identifyCalls = 0
  /\ ledIsNeoPixel' = isNeoPixel
  /\ ledShown' = LED_BLACK
  /\ performingPWM' = IF isNeoPixel THEN performingPWM ELSE FALSE
  /\ utilsPin' = IF isNeoPixel THEN utilsPin ELSE 0
  /\ UNCHANGED <<pwmRunning, pwmRestarted, pwmDuty, ledCall>>
  /\ UNCHANGED <<dispatcherVars, resetVars, stationVars, pinLED, tasks,
                 pairedVars, pressLog, heap, taskArg, blinkCalls, blinkLog,
                 feedbackVars, runVars, sonoffVars>>

FreeParams == {p \in ParamIds : ~heap[p].used}

\* malloc returns NULL when no cell is left for the record
MallocFails == heapExhausted \/ FreeParams = {}

\* malloc: the free cell at the lowest address
malloc == CHOOSE p \in FreeParams : \A q \in FreeParams : p <= q

\* blinkInBackground(color, cycles, delayMillis): allocate a record, fill it,
\* create the task.  The results of malloc and xTaskCreate are not tested: with
\* no cell left the record is written through a null pointer, and the store
\* to address 0 raises an exception; with no task created the record stays
\* allocated.
blinkInBackground(color, cycles, delayMillis) ==
  /\ Running
  /\ blinkCalls < MaxBlinks
  /\ blinkCalls' = blinkCalls + 1
  /\ IF MallocFails
       THEN /\ fault' = TRUE
            /\ UNCHANGED <<heap, tasks, taskArg>>
       ELSE \E r \in xTaskCreate("blink") :
              LET p == malloc IN
              /\ heap' = [heap EXCEPT ![p] =
                            [used |-> TRUE, color |-> color, cycles |-> cycles,
                             delayMillis |-> delayMillis]]
              /\ tasks' = r[1]
              /\ taskArg' = IF r[2] = 0 THEN taskArg
                            ELSE [taskArg EXCEPT ![r[2]] = p]
              /\ UNCHANGED fault
  /\ UNCHANGED <<dispatcherVars, resetVars, xHandle, wifiEvents, deleted,
                 serverInits, pinLED, pairedVars, pressLog, ledIsNeoPixel,
                 ledShown, blinkLog, feedbackVars, runVars, sonoffVars, pwmVars>>

\* Variant of the loop test: the body runs once before the test (do-while)
LoopContinues_DoWhile(i, cycles) == i = 0 \/ i < cycles

\* for (int i = 0; i < cycles; i++)
LoopContinues(i, cycles) == i < cycles

\* Variant of the test for the pause between cycles: pauses before every cycle
LeadingDelay_Always(i) == TRUE

\* if (i) { delayMS(delayMillis); }
LeadingDelay(i) == i # 0

\* setLEDColor(ledIsNeoPixel ? color : LED_WHITE)
ActiveColor(color) == IF ledIsNeoPixel THEN color ELSE LED_WHITE

\* blinkItTask of task t: blinkIt(color, cycles, delayMillis) on its record,
\* then free(blinkParams) and vTaskDelete(NULL).  A step runs up to the next
\* delayMS that blocks: "start" is the loop entry, "lit" the delay with the
\* LED on, "gap" the delay between two cycles.
blinkItTask(t) ==
  LET me == tasks[t]
      p == taskArg[t]
      args == heap[p]
      \* the loop test at index i: next iteration, or return from blinkIt
      Iterate(i, ops, shown) ==
        IF LoopContinues(i, args.cycles)
          THEN IF LeadingDelay(i)
                 THEN /\ tasks' = [tasks EXCEPT ![t] =
                            [me EXCEPT !.pc = "gap", !.i = i,
                               !.done = Append(ops, WaitOp(args.delayMillis))]]
                      /\ setLEDColors(shown)
                      /\ UNCHANGED <<heap, taskArg, blinkLog>>
                 ELSE /\ tasks' = [tasks EXCEPT ![t] =
                            [me EXCEPT !.pc = "lit", !.i = i,
                               !.done = ops \o <<SetOp(ActiveColor(args.color)),
                                                 WaitOp(args.delayMillis)>>]]
                      /\ setLEDColorWhole(ActiveColor(args.color))
                      /\ UNCHANGED <<heap, taskArg, blinkLog>>
          ELSE /\ blinkLog' = blinkLog \cup
                     {[color |-> args.color, cycles |-> args.cycles,
                       delayMillis |-> args.delayMillis, ops |-> ops]}
               /\ heap' = [heap EXCEPT ![p] = NoParams]
               /\ tasks' = [tasks EXCEPT ![t] = FreeTask]
               /\ taskArg' = [taskArg EXCEPT ![t] = 0]
               /\ setLEDColors(shown)
  IN
  /\ Running
  /\ me.kind = "blink"
  /\ CASE me.pc = "start" -> Iterate(0, me.done, <<>>)
       [] me.pc = "gap" ->
            /\ tasks' = [tasks EXCEPT ![t] =
                  [me EXCEPT !.pc = "lit",
                     !.done = me.done \o <<SetOp(ActiveColor(args.color)),
                                           WaitOp(args.delayMillis)>>]]
            /\ setLEDColorWhole(ActiveColor(args.color))
            /\ UNCHANGED <<heap, taskArg, blinkLog>>
       [] me.pc = "lit" ->
            Iterate(me.i + 1, Append(me.done, SetOp(LED_BLACK)), <<LED_BLACK>>)
  /\ UNCHANGED <<dispatcherVars, resetVars, stationVars, pinLED, pairedVars,
                 pressLog, ledIsNeoPixel, blinkCalls, feedbackVars, runVars, sonoffVars, ledCall>>

NextBlink ==
  \/ \E isNeoPixel \in BOOLEAN : prepLED(isNeoPixel)
  \/ \E color \in Colors, cycles \in 0..MaxCycles, delayMillis \in Delays :
       blinkInBackground(color, cycles, delayMillis)
  \/ \E t \in TaskIds : blinkItTask(t)

SpecBlink == Init /\ [][NextBlink]_vars

-----------------------------------------------------------------------------
(* Identify pattern and memory pressure (examples/JPmbutton/utils.c) *)

IdentifyRounds == 3
IdentifyCycles == 3

\* identifyDevice(_value): xTaskCreate(identifyDeviceTask, ...), result unused
identifyDevice ==
  /\ Running
  /\ identifyCalls < MaxIdentifies
  /\ identifyCalls' = identifyCalls + 1
  /\ \E r \in xTaskCreate("identify") : tasks' = r[1]
  /\ UNCHANGED <<dispatcherVars, resetVars, stationVars, pinLED, pairedVars,
                 pressLog, blinkVars, identifyDone, heapExhausted, runVars, sonoffVars, pwmVars>>

\* Variant of identifyDeviceTask: the task starts over instead of ending
identifyDeviceTask_Restarts(t) ==
  LET me == tasks[t]
      \* blinkIt's loop test at index j, with c cycles of the task done
      Enter(c, j, shown) ==
        IF LoopContinues(j, IdentifyCycles)
          THEN IF LeadingDelay(j)
                 THEN /\ tasks' = [tasks EXCEPT ![t] =
                                     [me EXCEPT !.pc = "gap", !.i = c]]
                      /\ setLEDColors(shown)
                 ELSE /\ tasks' = [tasks EXCEPT ![t] =
                                     [me EXCEPT !.pc = "lit", !.i = c]]
                      /\ setLEDColorWhole(ActiveColor(LED_PURPLE))
          ELSE /\ tasks' = [tasks EXCEPT ![t] =
                              [me EXCEPT !.pc = "pause", !.i = c]]
               /\ setLEDColors(shown)
  IN
  /\ Running
  /\ me.kind = "identify"
  /\ CASE me.pc \in {"start", "pause"} ->
            IF me.i \div IdentifyCycles < IdentifyRounds
              THEN /\ Enter(me.i, 0, <<>>)
                   /\ UNCHANGED identifyDone
              ELSE /\ setLEDColorWhole(LED_BLACK)
                   /\ identifyDone' = identifyDone
                   /\ tasks' = [tasks EXCEPT ![t] =
                                  [me EXCEPT !.pc = "start", !.i = 0]]
       [] me.pc = "gap" ->
            /\ tasks' = [tasks EXCEPT ![t] = [me EXCEPT !.pc = "lit"]]
            /\ setLEDColorWhole(ActiveColor(LED_PURPLE))
            /\ UNCHANGED identifyDone
       [] me.pc = "lit" ->
            LET c == me.i + 1
                j == IF c % IdentifyCycles = 0
                       THEN IdentifyCycles ELSE c % IdentifyCycles
            IN /\ Enter(c, j, <<LED_BLACK>>)
               /\ UNCHANGED identifyDone
  /\ UNCHANGED <<dispatcherVars, resetVars, stationVars, pinLED, pairedVars,
                 pressLog, ledIsNeoPixel, heap, taskArg, blinkCalls, blinkLog,
                 identifyCalls, heapExhausted, runVars, sonoffVars, ledCall>>

\* identifyDeviceTask: three times { blinkIt(LED_PURPLE, 3, 200); delayMS(500); }
\* then setLED(false) and vTaskDelete(NULL).  i counts the cycles done;
\* "lit" and "gap" are blinkIt's delays, "pause" the delay after a blinkIt.
identifyDeviceTask(t) ==
  LET me == tasks[t]
      \* blinkIt's loop test at index j, with c cycles of the task done
      Enter(c, j, shown) ==
        IF LoopContinues(j, IdentifyCycles)
          THEN IF LeadingDelay(j)
                 THEN /\ tasks' = [tasks EXCEPT ![t] =
                                     [me EXCEPT !.pc = "gap", !.i = c]]
                      /\ setLEDColors(shown)
                 ELSE /\ tasks' = [tasks EXCEPT ![t] =
                                     [me EXCEPT !.pc = "lit", !.i = c]]
                      /\ setLEDColorWhole(ActiveColor(LED_PURPLE))
          ELSE /\ tasks' = [tasks EXCEPT ![t] =
                              [me EXCEPT !.pc = "pause", !.i = c]]
               /\ setLEDColors(shown)
  IN
  /\ Running
  /\ me.kind = "identify"
  /\ CASE me.pc \in {"start", "pause"} ->
            IF me.i \div IdentifyCycles < IdentifyRounds
              THEN /\ Enter(me.i, 0, <<>>)
                   /\ UNCHANGED identifyDone
              ELSE /\ setLEDColorWhole(LED_BLACK)
                   /\ identifyDone' = identifyDone + 1
                   /\ tasks' = [tasks EXCEPT ![t] = FreeTask]
       [] me.pc = "gap" ->
            /\ tasks' = [tasks EXCEPT ![t] = [me EXCEPT !.pc = "lit"]]
            /\ setLEDColorWhole(ActiveColor(LED_PURPLE))
            /\ UNCHANGED identifyDone
       [] me.pc = "lit" ->
            LET c == me.i + 1
                j == IF c % IdentifyCycles = 0
                       THEN IdentifyCycles ELSE c % IdentifyCycles
            IN /\ Enter(c, j, <<LED_BLACK>>)
               /\ UNCHANGED identifyDone
  /\ UNCHANGED <<dispatcherVars, resetVars, stationVars, pinLED, pairedVars,
                 pressLog, ledIsNeoPixel, heap, taskArg, blinkCalls, blinkLog,
                 identifyCalls, heapExhausted, runVars, sonoffVars, ledCall>>

\* The other components of the firmware allocate what is left of the heap
exhaustHeap ==
  /\ Running
  /\ ~heapExhausted
  /\ heapExhausted' = TRUE
  /\ UNCHANGED <<dispatcherVars, resetVars, stationVars, pinLED, tasks,
                 pairedVars, pressLog, blinkVars, identifyCalls, identifyDone,
                 runVars, sonoffVars, pwmVars>>

\* The feedback tasks under the scheduler: tasks of equal priority that are
\* ready to run (a vTaskDelay that has expired) are run in turn.  Patterns
\* of every cycle count are requested, in one colour; MaxBlinks bounds the
\* requests of both kinds together.
NextFeedbackFair ==
  \/ /\ blinkCalls + identifyCalls < MaxBlinks
     /\ \E cycles \in 0..MaxCycles, delayMillis \in Delays :
          blinkInBackground(LED_PURPLE, cycles, delayMillis)
  \/ \E t \in TaskIds : blinkItTask(t)
  \/ /\ blinkCalls + identifyCalls < MaxBlinks
     /\ identifyDevice
  \/ \E t \in TaskIds : identifyDeviceTask(t)

SpecFeedbackFair ==
  /\ Init
  /\ [][NextFeedbackFair]_vars
  /\ \A t \in TaskIds : WF_vars(blinkItTask(t))
  /\ \A t \in TaskIds : WF_vars(identifyDeviceTask(t))

NextFeedback ==
  \/ \E isNeoPixel \in BOOLEAN : prepLED(isNeoPixel)
  \/ \E color \in Colors, cycles \in 0..MaxCycles, delayMillis \in Delays :
       blinkInBackground(color, cycles, delayMillis)
  \/ \E t \in TaskIds : blinkItTask(t)
  \/ identifyDevice
  \/ \E t \in TaskIds : identifyDeviceTask(t)
  \/ exhaustHeap

SpecFeedback == Init /\ [][NextFeedback]_vars

-----------------------------------------------------------------------------
(* A long run of double presses (examples/JP2Button/main.c) *)

\* buttonCallback taken for a double press, as one step: the increment of
\* the 8-bit counter, the comparison and the call of resetConfig().  The
\* gestures of the run are counted instead of being kept in the history.
buttonCallbackDouble ==
  /\ Running
  /\ cb.pc = "idle"
  /\ runLength < MaxRun
  /\ runLength' = runLength + 1
  /\ resetSequenceCount' =
       CountAfter(button_event_double_press, resetSequenceCount)
  /\ IF ReachedThreshold(resetSequenceCount')
       THEN /\ \E r \in xTaskCreate("reset") : tasks' = r[1]
            /\ runResets' = runResets + 1
       ELSE UNCHANGED <<tasks, runResets>>
  /\ UNCHANGED <<buttons, cb, gestures, resetLog, notifyLog, pinLED>>
  /\ UNCHANGED <<resetVars, stationVars, pairedVars, pressLog, blinkVars,
                 feedbackVars, sonoffVars, pwmVars>>

NextLongRun ==
  \/ buttonCallbackDouble
  \/ \E t \in TaskIds : resetConfigTask(t)

SpecLongRun == Init /\ [][NextLongRun]_vars

-----------------------------------------------------------------------------
(* Sonoff switch (examples/JPsonoff_basic/main.c).  Its resetConfig and      *)
(* resetConfigTask are those of JP2Button, line for line.                    *)

\* Variant of setRelay: the relay is driven active-low, like the LED
setRelay_ActiveLow(on) == ~on

\* setRelay(on): gpio_write(Pin_Relay, on)
setRelay(on) == on

\* button_callback(gpio, event): a single press toggles the switch, sets LED
\* and relay and publishes the new value; a long press calls resetConfig()
button_callback(event) ==
  /\ Running
  /\ Len(gestures) < MaxGestures
  /\ gestures' = Append(gestures, event)
  /\ CASE event = button_event_single_press ->
            /\ switch_on' = ~switch_on
            /\ pinLED' = setLED(switch_on')
            /\ pinRelay' = setRelay(switch_on')
            /\ notifyLog' = Append(notifyLog, <<"switch_on", switch_on'>>)
            /\ lastToggle' = <<pinRelay>>
            /\ UNCHANGED <<tasks, resetLog>>
       [] event = button_event_long_press ->
            /\ \E r \in xTaskCreate("reset") : tasks' = r[1]
            /\ resetLog' = resetLog \cup {Len(gestures')}
            /\ UNCHANGED <<notifyLog, pinLED>>
            /\ UNCHANGED sonoffVars
       [] OTHER ->
            /\ UNCHANGED <<notifyLog, pinLED, tasks, resetLog>>
            /\ UNCHANGED sonoffVars
  /\ UNCHANGED <<resetSequenceCount, buttons, cb>>
  /\ UNCHANGED <<resetVars, stationVars, pairedVars, pressLog, blinkVars,
                 feedbackVars, runVars, pwmVars>>

\* A HomeKit write of the On characteristic: the server stores the written
\* value in switch_on and calls switchOnCallback(_ch, on, context), which is
\* setState(switch_on.value.bool_value)
switchOnCallback(on) ==
  /\ Running
  /\ switch_on' = on
  /\ pinLED' = setLED(switch_on')
  /\ pinRelay' = setRelay(switch_on')
  /\ lastToggle' = <<>>
  /\ UNCHANGED <<tasks, gestures, resetLog, notifyLog>>
  /\ UNCHANGED <<resetSequenceCount, buttons, cb>>
  /\ UNCHANGED <<resetVars, stationVars, pairedVars, pressLog, blinkVars,
                 feedbackVars, runVars, pwmVars>>

\* Sonoff: identifyDevice and identifyDeviceTask with blinkIt(3, 100); the
\* task ends with setLED(switch_on.value.bool_value)
SonoffIdentifyCycles == 3
Sonoff_identifyDevice == identifyDevicePin
Sonoff_identifyDeviceTask(t) ==
  identifyDevicePinTask(t, SonoffIdentifyCycles, switch_on)

\* Sonoff: indicateStationMode(on); the stop branch ends with
\* setLED(switch_on.value.bool_value)
Sonoff_indicateStationMode(on) ==
  IF on
    THEN /\ \E r \in xTaskCreate("station") :
              /\ tasks' = r[1]
              /\ xHandle' = IF r[2] # 0 THEN r[2] ELSE xHandle
         /\ UNCHANGED <<pinLED, deleted, fault>>
    ELSE IF HandleSet(xHandle)
      THEN /\ deleted' = xHandle
           /\ \E r \in vTaskDelete(xHandle) :
                /\ tasks' = r[1]
                /\ fault' = r[2]
                /\ pinLED' = IF r[2] THEN pinLED ELSE setLED(switch_on)
           /\ UNCHANGED xHandle
      ELSE /\ deleted' = 0
           /\ pinLED' = setLED(switch_on)
           /\ UNCHANGED <<tasks, xHandle, fault>>

\* Sonoff: handleWiFiEvent(event)
Sonoff_handleWiFiEvent(event) ==
  /\ Running
  /\ Len(wifiEvents) < MaxEvents
  /\ wifiEvents' = Append(wifiEvents, event)
  /\ CASE event = WIFI_CONFIG_CONNECTED ->
            /\ serverInits' = serverInits + 1
            /\ UNCHANGED <<pinLED, tasks, xHandle, deleted, fault>>
       [] event = WIFI_CONFIG_DISCONNECTED ->
            UNCHANGED <<pinLED, tasks, xHandle, deleted, fault, serverInits>>
       [] event = WIFI_CONFIG_AP_START ->
            /\ Sonoff_indicateStationMode(TRUE)
            /\ UNCHANGED serverInits
       [] event = WIFI_CONFIG_AP_STOP ->
            /\ Sonoff_indicateStationMode(FALSE)
            /\ UNCHANGED serverInits
  /\ UNCHANGED dispatcherVars
  /\ UNCHANGED resetVars
  /\ UNCHANGED variantVars

\* The events delivered to button_callback: the two it handles and one of
\* those that take its default branch
SonoffEvents == {button_event_single_press, button_event_long_press,
                 button_event_double_press}

\* The Sonoff's indicateStationModeTask is that of JP2Button but for the
\* length of the delay in blinkIt(4, 125)
NextSonoff ==
  \/ /\ MayDeliver
     /\ \E event \in SonoffEvents : button_callback(event)
  \/ MayDeliver /\ Sonoff_identifyDevice
  \/ \E t \in TaskIds : Sonoff_identifyDeviceTask(t)
  \/ /\ MayDeliver
     /\ \E event \in WiFiEvents : Sonoff_handleWiFiEvent(event)
  \/ \E t \in TaskIds : indicateStationModeTask(t)
  \/ \E on \in BOOLEAN : switchOnCallback(on)
  \/ \E t \in TaskIds : resetConfigTask(t)

SpecSonoff == Init /\ [][NextSonoff]_vars

-----------------------------------------------------------------------------
(* Station-mode indicator of examples/JPmbutton/utils.c, on the LED that the *)
(* feedback patterns use                                                      *)

LED_ORANGE == 16560387

\* indicateStationModeTask of utils.c:
\* while (true) { blinkIt(LED_ORANGE, 4, 200); delayMS(1000); }
utils_indicateStationModeTask(t) ==
  LET me == tasks[t]
      \* blinkIt's loop test at index j
      Enter(j, shown) ==
        IF LoopContinues(j, StationBlinkCycles)
          THEN IF LeadingDelay(j)
                 THEN /\ tasks' = [tasks EXCEPT ![t] =
                                     [me EXCEPT !.pc = "gap", !.i = j]]
                      /\ setLEDColors(shown)
                 ELSE /\ tasks' = [tasks EXCEPT ![t] =
                                     [me EXCEPT !.pc = "lit", !.i = j]]
                      /\ setLEDColorWhole(ActiveColor(LED_ORANGE))
          ELSE /\ tasks' = [tasks EXCEPT ![t] =
                              [me EXCEPT !.pc = "pause", !.i = 0]]
               /\ setLEDColors(shown)
  IN
  /\ Running
  /\ me.kind = "utils_station"
  /\ CASE me.pc \in {"start", "pause"} -> Enter(0, <<>>)
       [] me.pc = "gap" ->
            /\ tasks' = [tasks EXCEPT ![t] = [me EXCEPT !.pc = "lit"]]
            /\ setLEDColorWhole(ActiveColor(LED_ORANGE))
       [] me.pc = "lit" -> Enter(me.i + 1, <<LED_BLACK>>)
  /\ UNCHANGED <<dispatcherVars, resetVars, stationVars, pinLED, pairedVars,
                 pressLog, ledIsNeoPixel, heap, taskArg, blinkCalls, blinkLog,
                 feedbackVars, runVars, sonoffVars, ledCall>>

\* Variant of utils_indicateStationMode: the stop branch leaves the LED as it is
utils_indicateStationMode_StopLeavesLED(on) ==
  IF on
    THEN /\ \E r \in xTaskCreate("utils_station") :
              /\ tasks' = r[1]
              /\ xHandle' = IF r[2] # 0 THEN r[2] ELSE xHandle
         /\ UNCHANGED <<deleted, fault>>
         /\ UNCHANGED ledVars
    ELSE IF HandleSet(xHandle)
      THEN /\ deleted' = xHandle
           /\ \E r \in vTaskDelete(xHandle) :
                /\ tasks' = r[1]
                /\ fault' = r[2]
                /\ UNCHANGED ledVars
           /\ UNCHANGED xHandle
      ELSE /\ deleted' = 0
           /\ UNCHANGED ledVars
           /\ UNCHANGED <<tasks, xHandle, fault>>

\* indicateStationMode(on) of utils.c: as in JP2Button, with
\* setLED(false) = setLEDColor(LED_BLACK) in the stop branch
utils_indicateStationMode(on) ==
  IF on
    THEN /\ \E r \in xTaskCreate("utils_station") :
              /\ tasks' = r[1]
              /\ xHandle' = IF r[2] # 0 THEN r[2] ELSE xHandle
         /\ UNCHANGED <<deleted, fault>>
         /\ UNCHANGED ledVars
    ELSE IF HandleSet(xHandle)
      THEN /\ deleted' = xHandle
           /\ \E r \in vTaskDelete(xHandle) :
                /\ tasks' = r[1]
                /\ fault' = r[2]
                /\ IF r[2] THEN UNCHANGED ledVars
                           ELSE setLEDColorWhole(LED_BLACK)
           /\ UNCHANGED xHandle
      ELSE /\ deleted' = 0
           /\ setLEDColorWhole(LED_BLACK)
           /\ UNCHANGED <<tasks, xHandle, fault>>

\* logWiFiEvent(event)
logWiFiEvent(event) ==
  /\ Running
  /\ Len(wifiEvents) < MaxEvents
  /\ wifiEvents' = Append(wifiEvents, event)
  /\ CASE event = WIFI_CONFIG_AP_START -> utils_indicateStationMode(TRUE)
       [] event = WIFI_CONFIG_AP_STOP -> utils_indicateStationMode(FALSE)
       [] OTHER -> /\ UNCHANGED <<tasks, xHandle, deleted, fault>>
                   /\ UNCHANGED ledVars
  /\ UNCHANGED <<dispatcherVars, resetVars, serverInits, pinLED, pairedVars,
                 pressLog, ledIsNeoPixel, heap, taskArg, blinkCalls, blinkLog,
                 feedbackVars, runVars, sonoffVars, ledCall>>

LED_RED == 16711680

\* resetConfig() of utils.c: xTaskCreate(resetConfigTask, ..., NULL)
utils_resetConfig ==
  /\ Running
  /\ \E r \in xTaskCreate("utils_reset") : tasks' = r[1]
  /\ resetLog' = resetLog \cup {Cardinality(resetLog) + 1}
  /\ UNCHANGED <<resetSequenceCount, buttons, cb, gestures, notifyLog>>
  /\ UNCHANGED <<resetVars, stationVars, pinLED, variantVars>>

\* resetConfigTask() of utils.c: blinkIt(LED_RED, 5, 100);
\* wifi_config_reset(); delayMS(1000); homekit_server_reset(); delayMS(1000);
\* sdk_system_restart(); vTaskDelete(NULL).  A step runs up to the next delay.
utils_resetConfigTask(t) ==
  LET me == tasks[t]
      \* blinkIt's loop test at index j; when the loop ends blinkIt returns
      \* and the task goes on to wifi_config_reset() and the delay after it
      Enter(j, shown, done) ==
        IF LoopContinues(j, ResetBlinkCycles)
          THEN IF LeadingDelay(j)
                 THEN /\ tasks' = [tasks EXCEPT ![t] =
                            [me EXCEPT !.pc = "gap", !.i = j, !.done = done]]
                      /\ setLEDColors(shown)
                      /\ UNCHANGED resetVars
                 ELSE /\ tasks' = [tasks EXCEPT ![t] =
                            [me EXCEPT !.pc = "lit", !.i = j,
                                       !.done = Append(done, "led_on")]]
                      /\ setLEDColorWhole(ActiveColor(LED_RED))
                      /\ UNCHANGED resetVars
          ELSE /\ setLEDColors(shown)
               /\ wifiResets' = wifiResets + 1
               /\ \E ok \in BOOLEAN :
                    resetFailures' = IF ok THEN resetFailures
                                     ELSE resetFailures \cup {"wifi_config_reset"}
               /\ tasks' = [tasks EXCEPT ![t] =
                     [me EXCEPT !.pc = "wifi_done", !.i = 0,
                                !.done = Append(done, "wifi_config_reset")]]
               /\ UNCHANGED <<restarted, restartTrace, hkResets>>
  IN
  /\ Running
  /\ me.kind = "utils_reset"
  /\ CASE me.pc = "start" -> Enter(0, <<>>, me.done)
       [] me.pc = "gap" ->
            /\ tasks' = [tasks EXCEPT ![t] =
                  [me EXCEPT !.pc = "lit", !.done = Append(me.done, "led_on")]]
            /\ setLEDColorWhole(ActiveColor(LED_RED))
            /\ UNCHANGED resetVars
       [] me.pc = "lit" ->
            Enter(me.i + 1, <<LED_BLACK>>, Append(me.done, "led_off"))
       [] me.pc = "wifi_done" ->
            /\ hkResets' = hkResets + 1
            /\ \E ok \in BOOLEAN :
                 resetFailures' = IF ok THEN resetFailures
                                  ELSE resetFailures \cup {"homekit_server_reset"}
            /\ tasks' = [tasks EXCEPT ![t] =
                  [me EXCEPT !.pc = "hk_done",
                             !.done = Append(me.done, "homekit_server_reset")]]
            /\ UNCHANGED <<restarted, restartTrace, wifiResets>>
            /\ UNCHANGED ledVars
       [] me.pc = "hk_done" ->
            /\ restarted' = TRUE
            /\ restartTrace' = Append(me.done, "sdk_system_restart")
            /\ tasks' = [tasks EXCEPT ![t] = FreeTask]
            /\ UNCHANGED <<wifiResets, hkResets, resetFailures>>
            /\ UNCHANGED ledVars
  /\ UNCHANGED <<dispatcherVars, stationVars, pinLED, pairedVars, pressLog,
                 ledIsNeoPixel, heap, taskArg, blinkCalls, blinkLog,
                 feedbackVars, runVars, sonoffVars, ledCall>>

\* The tasks that write the LED of utils.c
FeedbackTasks ==
  {t \in TaskIds : tasks[t].kind \in {"blink", "identify", "utils_reset"}}
UtilsStationTasks == TasksOf("utils_station")

\* Requests that are still allowed: MaxEvents bounds the WiFi events and the
\* requests for finite patterns together
MayRequest ==
  blinkCalls + identifyCalls + Len(wifiEvents) + Cardinality(resetLog) < MaxEvents

\* The writers of the LED together; the finite patterns in one colour, with
\* no cycle or one
NextIndicator ==
  \/ /\ wifiEvents = <<>>
     /\ resetLog = {}
     /\ \E isNeoPixel \in BOOLEAN : prepLED(isNeoPixel)
  \/ /\ MayRequest
     /\ \E cycles \in {0, 1}, delayMillis \in Delays :
          blinkInBackground(LED_PURPLE, cycles, delayMillis)
  \/ \E t \in TaskIds : blinkItTask(t)
  \/ /\ MayRequest
     /\ identifyDevice
  \/ \E t \in TaskIds : identifyDeviceTask(t)
  \/ /\ MayRequest
     /\ \E event \in {WIFI_CONFIG_AP_START, WIFI_CONFIG_AP_STOP} :
          logWiFiEvent(event)
  \/ \E t \in TaskIds : utils_indicateStationModeTask(t)
  \/ MayRequest /\ utils_resetConfig
  \/ \E t \in TaskIds : utils_resetConfigTask(t)

SpecIndicator == Init /\ [][NextIndicator]_vars

-----------------------------------------------------------------------------
(* setLEDColor of examples/JPmbutton/utils.c on a mono LED, statement by     *)
(* statement.  The callers are tasks of equal priority under a preemptive    *)
(* scheduler and the function takes no lock, so a caller can be preempted    *)
(* between any two of its statements.                                        *)

\* The colours the callers pass
CallColors == {LED_WHITE, LED_BLACK, LED_PURPLE}

\* The frame of a step inside setLEDColor
setLEDColorFrame ==
  /\ UNCHANGED <<dispatcherVars, resetVars, stationVars, pinLED, tasks,
                 pairedVars, pressLog, ledIsNeoPixel, heap, taskArg,
                 blinkCalls, blinkLog, feedbackVars, runVars, sonoffVars>>

\* Caller c enters setLEDColor(color) and runs up to its first access to
\* performingPWM: ws2812_set on a colour LED, gpio_write(pin, 1) for
\* LED_WHITE, nothing yet for LED_BLACK (the LED still shows the colour last
\* written), pwm_set_duty for any other colour
setLEDColor(c, color) ==
  /\ Running
  /\ ledCall[c].pc \in {"idle", "returned"}
  /\ CASE ledIsNeoPixel ->
            /\ ledShown' = color
            /\ ledCall' = [ledCall EXCEPT ![c] = [pc |-> "returned", color |-> color]]
            /\ UNCHANGED <<utilsPin, pwmDuty>>
       [] ~ledIsNeoPixel /\ color = LED_WHITE ->
            /\ ledShown' = color
            /\ utilsPin' = 1
            /\ ledCall' = [ledCall EXCEPT ![c] = [pc |-> "returned", color |-> color]]
            /\ UNCHANGED pwmDuty
       [] ~ledIsNeoPixel /\ color = LED_BLACK ->
            /\ ledCall' = [ledCall EXCEPT ![c] = [pc |-> "black_test", color |-> color]]
            /\ UNCHANGED <<ledShown, utilsPin, pwmDuty>>
       [] OTHER ->
            /\ ledShown' = color
            /\ pwmDuty' = DutyCycle(color)
            /\ ledCall' = [ledCall EXCEPT ![c] = [pc |-> "color_test", color |-> color]]
            /\ UNCHANGED utilsPin
  /\ UNCHANGED <<performingPWM, pwmRunning, pwmRestarted>>
  /\ setLEDColorFrame

\* The next statement of caller c inside setLEDColor:
\*   black_test   if (performingPWM)
\*   black_stop   pwm_stop();
\*   black_clear  performingPWM = false;
\*   black_write  gpio_write(Utils_Pin_LED, 0); return;
\*   color_test   if (!performingPWM)
\*   color_start  pwm_start();
\*   color_set    performingPWM = true;
setLEDColorStep(c) ==
  LET pc == ledCall[c].pc
      goto(l) == ledCall' = [ledCall EXCEPT ![c].pc = l]
  IN
  /\ Running
  /\ pc \notin {"idle", "returned"}
  /\ CASE pc = "black_test" ->
            /\ goto(IF performingPWM THEN "black_stop" ELSE "black_write")
            /\ UNCHANGED <<performingPWM, pwmRunning, pwmRestarted, utilsPin,
                           ledShown>>
       [] pc = "black_stop" ->
            /\ pwmRunning' = FALSE
            /\ goto("black_clear")
            /\ UNCHANGED <<performingPWM, pwmRestarted, utilsPin, ledShown>>
       [] pc = "black_clear" ->
            /\ performingPWM' = FALSE
            /\ goto("black_write")
            /\ UNCHANGED <<pwmRunning, pwmRestarted, utilsPin, ledShown>>
       [] pc = "black_write" ->
            /\ utilsPin' = 0
            /\ ledShown' = LED_BLACK
            /\ goto("returned")
            /\ UNCHANGED <<performingPWM, pwmRunning, pwmRestarted>>
       [] pc = "color_test" ->
            /\ goto(IF ~performingPWM THEN "color_start" ELSE "returned")
            /\ UNCHANGED <<performingPWM, pwmRunning, pwmRestarted, utilsPin,
                           ledShown>>
       [] pc = "color_start" ->
            /\ pwmRunning' = TRUE
            /\ pwmRestarted' = (pwmRestarted \/ pwmRunning)
            /\ goto("color_set")
            /\ UNCHANGED <<performingPWM, utilsPin, ledShown>>
       [] pc = "color_set" ->
            /\ performingPWM' = TRUE
            /\ goto("returned")
            /\ UNCHANGED <<pwmRunning, pwmRestarted, utilsPin, ledShown>>
  /\ UNCHANGED pwmDuty
  /\ setLEDColorFrame

NextPWM ==
  \/ \E c \in Callers, color \in CallColors : setLEDColor(c, color)
  \/ \E c \in Callers : setLEDColorStep(c)

SpecPWM == Init /\ [][NextPWM]_vars

-----------------------------------------------------------------------------
(* The accessory configuration of JP2Button *)

\* accessories[]: SWITCH_SERVICE(1, true) .. SWITCH_SERVICE(4, false)
SwitchServices == 1 .. 4

\* SWITCH_SERVICE(_INDEX, _IS_PRIMARY): the service's characteristic is
\* &buttons[_INDEX]
SWITCH_SERVICE(index) == index

\* user_init: button_create(ButtonPins[i], ..., buttonCallback, &buttons[i])
ButtonSlot(i) == i

\* The exposed switch services whose characteristic is the given slot
ServicesOf(slot) == {s \in SwitchServices : SWITCH_SERVICE(s) = slot}

-----------------------------------------------------------------------------
(* Observations on the histories *)

IsDouble(k) == gestures[k] = button_event_double_press

\* Position of gesture k inside its run of consecutive double presses
\* (a run starts at boot or after a gesture that is not a double press)
RunPos(k) ==
  LET breaks == {0} \cup {j \in 1..k : ~IsDouble(j)}
      last == CHOOSE j \in breaks : \A m \in breaks : m <= j
  IN k - last

\* The callback for gesture k has returned
Handled(k) == k < Len(gestures) \/ cb.pc = "idle"

IsAPEvent(e) == e \in {WIFI_CONFIG_AP_START, WIFI_CONFIG_AP_STOP}
APEvents == SelectSeq(wifiEvents, IsAPEvent)
LastAP == IF APEvents = <<>> THEN "none" ELSE APEvents[Len(APEvents)]

\* started, stopped, started, ... beginning with started
Alternating(s) ==
  \A k \in 1..Len(s) :
    s[k] = IF k % 2 = 1 THEN WIFI_CONFIG_AP_START ELSE WIFI_CONFIG_AP_STOP

StationTasks == TasksOf("station")

IsNotifyingEvent(e) == e \in NotifyingEvents

\* The gestures handled so far that belong to a notifying branch, in order
NotifyingGestures == SelectSeq(gestures, IsNotifyingEvent)

-----------------------------------------------------------------------------
(* Properties *)

\* C1 (as claimed): a double press at position 1, 2 or 3 of a run that began
\* with the counter at 0 invokes resetConfig exactly when it is the 3rd
\* (threshold + 1) of the run: once, on the last gesture, never earlier.
C1_ResetOnThirdDouble ==
  \A k \in 1..Len(gestures) :
    (IsDouble(k) /\ RunPos(k) <= ResetSequenceThreshold + 1)
      => ((k \in resetLog) <=> (RunPos(k) = ResetSequenceThreshold + 1 /\ Handled(k)))

\* C2 (as claimed): a run of threshold or fewer double presses that is ended
\* by another gesture has invoked resetConfig on none of its gestures.
C2_ShortRunNoReset ==
  \A j \in 2..Len(gestures) :
    (~IsDouble(j) /\ IsDouble(j - 1) /\ RunPos(j - 1) <= ResetSequenceThreshold)
      => \A k \in (j - RunPos(j - 1))..(j - 1) : k \notin resetLog

\* C3: every gesture other than a double press sets the counter to 0, and the
\* counter is already 0 when that gesture's notification is published and when
\* the callback first lights the indicator for it.
C3_NonDoubleResetsCounterFirst ==
  /\ [](   (gestures # <<>> /\ ~IsDouble(Len(gestures)))
        => resetSequenceCount = 0)
  /\ [][(notifyLog' # notifyLog \/ cb'.lit > cb.lit)
          => (resetSequenceCount = 0 /\ resetSequenceCount' = 0)]_vars

\* C3 witness: a press other than double arrived after a double press (counter
\* was 1) and its feedback is running with the counter at 0.
C3_Witness ==
  /\ Len(gestures) >= 2
  /\ IsDouble(Len(gestures) - 1)
  /\ gestures[Len(gestures)] = button_event_long_press
  /\ cb.pc = "d1"
  /\ Len(notifyLog) = 1
  /\ resetSequenceCount = 0

\* C4 (as claimed): the counter always lies in 0..threshold.
C4_CounterWithinThreshold ==
  resetSequenceCount \in 0..ResetSequenceThreshold

\* C4 (amended): the counter is an 8-bit value, and it lies in 0..threshold in
\* every state in which resetConfig has not been invoked.
C4_CounterWithinThresholdUntilReset ==
  /\ resetSequenceCount \in 0..(UINT8_MOD - 1)
  /\ resetLog = {} => resetSequenceCount \in 0..ResetSequenceThreshold

\* C4 witness: the counter has just reached the threshold, reset not yet invoked.
C4_Witness ==
  /\ resetSequenceCount = ResetSequenceThreshold
  /\ resetLog = {}
  /\ cb.pc = "check"

\* C5 (as claimed): after two starts in a row with no stop in between there is
\* exactly one station-mode indicator task.
C5_OneIndicatorAfterDoubleStart ==
  (/\ Len(APEvents) >= 2
   /\ APEvents[Len(APEvents)] = WIFI_CONFIG_AP_START
   /\ APEvents[Len(APEvents) - 1] = WIFI_CONFIG_AP_START)
    => Cardinality(StationTasks) = 1

\* C6 (as claimed): a stop issued while no indicator task is running deletes
\* no task, changes nothing observable and does not fail.
C6_StopWhenIdleIsNoOp ==
  [][(/\ StationTasks = {}
      /\ wifiEvents' = Append(wifiEvents, WIFI_CONFIG_AP_STOP))
       => (/\ deleted' = 0
           /\ tasks' = tasks
           /\ pinLED' = pinLED
           /\ fault' = FALSE)]_vars

\* C7 (as claimed): a stop leaves the indicator off, and once the last
\* start/stop call was a stop no station-mode task lights the indicator.
C7_DarkAfterStop ==
  /\ [][(wifiEvents' = Append(wifiEvents, WIFI_CONFIG_AP_STOP) /\ ~fault')
          => pinLED' = setLED(FALSE)]_vars
  /\ [][LastAP = WIFI_CONFIG_AP_STOP
          => ~(\E t \in TaskIds :
                 indicateStationModeTask(t) /\ pinLED' = setLED(TRUE))]_vars

\* C8: while started and stopped strictly alternate, beginning with started,
\* exactly one indicator task runs after a started (the one the handle names),
\* none after a stopped, and never more than one.
C8_AlternatingStartStop ==
  Alternating(APEvents) =>
    /\ ~fault
    /\ Cardinality(StationTasks) <= 1
    /\ LastAP = WIFI_CONFIG_AP_START
         => (StationTasks # {} /\ StationTasks = {xHandle})
    /\ LastAP = WIFI_CONFIG_AP_STOP => StationTasks = {}

\* C8 witness: started, stopped, started were handled; the second task blinks.
C8_Witness ==
  /\ APEvents = <<WIFI_CONFIG_AP_START, WIFI_CONFIG_AP_STOP, WIFI_CONFIG_AP_START>>
  /\ Cardinality(StationTasks) = 1
  /\ \E t \in StationTasks : tasks[t].pc = "d1"

\* C9 (as claimed): the callback never executes an indicator step or a delay
\* of a feedback pattern itself.
C9_NoInlineFeedback ==
  /\ cb.pc \notin {"d1", "d2"}
  /\ cb.lit = 0

\* C10 (as claimed): every handled gesture has lit the indicator at least once.
C10_EveryGestureGivesFeedback ==
  (cb.pc = "idle" /\ cb.event # "none") => cb.lit >= 1

\* C11: the k-th single, long or triple press is answered by exactly one
\* notification, the k-th one published, and it carries 0, 1 or 2 respectively.
C11_NotificationValues ==
  /\ Len(notifyLog) = Len(NotifyingGestures) - (IF cb.pc = "notify" THEN 1 ELSE 0)
  /\ \A k \in 1..Len(notifyLog) :
       notifyLog[k][2] = CASE NotifyingGestures[k] = button_event_single_press -> 0
                           [] NotifyingGestures[k] = button_event_long_press -> 1
                           [] NotifyingGestures[k] = button_event_tripple_press -> 2

\* C11 witness: a single, a long and a triple press were each notified once.
C11_Witness ==
  /\ gestures = <<button_event_single_press, button_event_long_press,
                  button_event_tripple_press>>
  /\ Len(notifyLog) = 3
  /\ notifyLog[2][2] = 1
  /\ cb.pc = "idle"

\* C12: no step taken for a double press or for an unrecognized value
\* publishes a notification or changes the notification slot of any channel.
C12_DoubleAndOtherPublishNothing ==
  [][cb'.event \in {button_event_double_press, button_event_other}
       => (buttons' = buttons /\ notifyLog' = notifyLog)]_vars

\* C12 witness: a triple press set a slot to 2; a double press and an
\* unrecognized value were then handled and the slot and the log are as before.
C12_Witness ==
  /\ gestures = <<button_event_tripple_press, button_event_double_press,
                  button_event_other>>
  /\ cb.pc = "idle"
  /\ Len(notifyLog) = 1
  /\ buttons[notifyLog[1][1]] = 2

\* C13 (as claimed): while the callback of a notifying gesture on the buttons
\* of channel p gives its feedback, the notification it published is the
\* latest one and went to the characteristic of channel p.
C13_NotifiesOwnChannel ==
  (cb.pc \in {"blink", "d1", "d2"} /\ ~fault)
    => (/\ notifyLog # <<>>
        /\ notifyLog[Len(notifyLog)][1] = CharAddr(cb.button))

\* The effects of one complete reset action, in the order the claim gives
ExpectedResetEffects ==
  <<"led_on", "led_off", "led_on", "led_off", "led_on", "led_off",
    "led_on", "led_off", "led_on", "led_off",
    "wifi_config_reset", "homekit_server_reset", "sdk_system_restart">>

\* C14: what a reset task has done so far is always an initial part of: the
\* five-cycle feedback pattern, the WiFi reset, the pairing reset, the restart.
C14_ResetStepsInOrder ==
  /\ \A t \in TasksOf("reset") :
       /\ Len(tasks[t].done) <= Len(ExpectedResetEffects)
       /\ tasks[t].done = SubSeq(ExpectedResetEffects, 1, Len(tasks[t].done))
  /\ restarted => restartTrace = ExpectedResetEffects

\* C14 witness: a reset task ran through all its steps up to the restart.
C14_Witness ==
  /\ restarted
  /\ restartTrace = ExpectedResetEffects
  /\ TasksOf("reset") = {}
  /\ wifiResets = 1
  /\ hkResets = 1

\* C15: once the reset action has been invoked the restart is eventually
\* performed, whatever the two reset primitives report.
C15_ResetLeadsToRestart == (resetLog # {}) ~> restarted

\* C15 witness: the device restarted although both primitives had failed.
C15_Witness ==
  /\ restarted
  /\ resetLog # {}
  /\ resetFailures = {"wifi_config_reset", "homekit_server_reset"}

\* C16: the step that invokes the reset action leaves the counter at the
\* threshold, and the counter changes only in the step that dispatches a
\* gesture to buttonCallback, never in a step of the reset task.
C16_OnlyDispatcherWritesCounter ==
  /\ [][resetLog' # resetLog
          => (/\ resetSequenceCount' = resetSequenceCount
              /\ resetSequenceCount' = ResetSequenceThreshold)]_vars
  /\ [][resetSequenceCount' # resetSequenceCount
          => (gestures' # gestures /\ tasks' = tasks)]_vars

\* C16 witness: the reset task ran to the restart and the counter still holds
\* the threshold value at which the reset was invoked.
C16_Witness ==
  /\ restarted
  /\ resetLog # {}
  /\ resetSequenceCount = ResetSequenceThreshold

\* C18: the counter is the length of the run of double presses that ends the
\* gesture history, whichever buttons they were raised on; a gesture of
\* another kind on any button puts it to 0; the reset action is invoked by
\* exactly the double press that brings this device-wide count to the threshold.
C18_DeviceWideCounter ==
  /\ resetSequenceCount =
       IF gestures = <<>> \/ ~IsDouble(Len(gestures))
         THEN 0 ELSE RunPos(Len(gestures))
  /\ \A k \in 1..Len(gestures) :
       (k \in resetLog) <=>
         (IsDouble(k) /\ RunPos(k) = ResetSequenceThreshold /\ Handled(k))

\* C18 witness: two double presses on different buttons brought the counter
\* to the threshold and invoked the reset, then a press of another kind on
\* the first button cleared the counter.
C18_Witness ==
  /\ Len(gestures) = 3
  /\ IsDouble(1) /\ IsDouble(2) /\ ~IsDouble(3)
  /\ pressLog[1] # pressLog[2]
  /\ pressLog[3] = pressLog[1]
  /\ resetLog = {2}
  /\ resetSequenceCount = 0

\* The operations of one cycle of a finished pattern r: the LED set to the
\* pattern's colour (white on a mono LED), held for the delay, set to black
CycleOps(r) ==
  <<SetOp(IF ledIsNeoPixel THEN r.color ELSE LED_WHITE),
    WaitOp(r.delayMillis), SetOp(LED_BLACK)>>

RECURSIVE Repeat(_, _)
Repeat(ops, n) == IF n = 0 THEN <<>> ELSE ops \o Repeat(ops, n - 1)

\* C19: a feedback pattern run with cycles = 0 sets the LED never, calls no
\* delay, and its task ends in its first step: the task is deleted and the LED
\* shows what it showed before.
C19_ZeroCyclesDoesNothing ==
  /\ [](\A r \in blinkLog : r.cycles = 0 => r.ops = <<>>)
  /\ [][\A t \in TaskIds :
          (/\ tasks[t].kind = "blink"
           /\ heap[taskArg[t]].cycles = 0
           /\ tasks'[t] # tasks[t])
          => (/\ tasks'[t] = FreeTask
              /\ ledShown' = ledShown
              /\ \E r \in blinkLog' : r.cycles = 0)]_vars

\* C19 witness: a pattern with cycles = 0 was requested, ran and finished
C19_Witness ==
  /\ \E r \in blinkLog : r.cycles = 0
  /\ \A t \in TaskIds : tasks[t].kind # "blink"

\* C20 as stated: a finished pattern with cycles >= 1 is cycles times
\* (activate, wait, deactivate, wait), beginning with the activation.
C20_FourStepIterations ==
  \A r \in blinkLog :
    r.cycles >= 1 =>
      r.ops = Repeat(CycleOps(r) \o <<WaitOp(r.delayMillis)>>, r.cycles)

\* C20 as the code does it: a finished pattern with cycles >= 1 is
\* (activate, wait, deactivate), then cycles - 1 times (wait, activate, wait,
\* deactivate): cycles activations and cycles deactivations in alternation,
\* a wait between consecutive cycles, none before the first activation and
\* none after the last deactivation, with which the pattern ends.
C20_PauseBetweenCycles ==
  \A r \in blinkLog :
    r.cycles >= 1 =>
      /\ r.ops = CycleOps(r) \o
                   Repeat(<<WaitOp(r.delayMillis)>> \o CycleOps(r), r.cycles - 1)
      /\ Len(r.ops) = 4 * r.cycles - 1
      /\ r.ops[Len(r.ops)] = SetOp(LED_BLACK)

\* C20 witness: a pattern of several cycles in a colour has finished on a
\* colour LED
C20_Witness ==
  /\ ledIsNeoPixel
  /\ \E r \in blinkLog : r.cycles >= 2 /\ r.color = LED_PURPLE

\* C21: a feedback task that was started (blinkItTask, identifyDeviceTask)
\* eventually ends and frees its control block, whatever its cycle count.
C21_FeedbackTasksTerminate ==
  \A t \in TaskIds :
    (tasks[t].kind \in {"blink", "identify"}) ~> (tasks[t].kind = "free")

\* C21 witness: an identify pattern and a pattern of the highest cycle count
\* have both run to the end and no feedback task is left
C21_Witness ==
  /\ identifyDone >= 1
  /\ \E r \in blinkLog : r.cycles = MaxCycles
  /\ \A t \in TaskIds : tasks[t].kind = "free"

\* C22: every BlinkParams record that is allocated is the argument of exactly
\* one live blinkItTask, the task that will release it when its pattern is
\* done; so no record stays allocated without a task to release it.
C22_RecordsOwnedByOneTask ==
  \A p \in ParamIds :
    heap[p].used =>
      Cardinality({t \in TaskIds : tasks[t].kind = "blink" /\ taskArg[t] = p}) = 1

\* C23: a request for a feedback pattern that starts no task loses the
\* pattern and nothing else: the firmware does not fault and the heap is as
\* it was before the request.
C23_FailedStartLosesOnlyFeedback ==
  [][(blinkCalls' # blinkCalls /\ tasks' = tasks)
       => (fault' = fault /\ heap' = heap)]_vars

\* C24: a step of the WiFi event handler calls homekit_server_init exactly
\* when the event is `connected`; `connected` and `disconnected` leave the
\* tasks, the handle and the LED alone; `AP start` creates a station-mode
\* task (when a control block is free) and stores its handle; `AP stop`
\* deletes the station-mode task the handle refers to and leaves the LED dark.
C24_WiFiEventEffects ==
  [][wifiEvents' # wifiEvents =>
       LET e == wifiEvents'[Len(wifiEvents')] IN
       /\ serverInits' = IF e = WIFI_CONFIG_CONNECTED
                           THEN serverInits + 1 ELSE serverInits
       /\ e \in {WIFI_CONFIG_CONNECTED, WIFI_CONFIG_DISCONNECTED}
            => (tasks' = tasks /\ xHandle' = xHandle /\ pinLED' = pinLED)
       /\ (e = WIFI_CONFIG_AP_START /\ FreeIds # {})
            => /\ xHandle' \in FreeIds
               /\ tasks'[xHandle'].kind = "station"
               /\ \A t \in TaskIds \ {xHandle'} : tasks'[t] = tasks[t]
       /\ (e = WIFI_CONFIG_AP_STOP /\ xHandle # 0)
            => (tasks[xHandle].kind = "station"
                  => (tasks'[xHandle].kind = "free" /\ ~LedLit'))
       /\ (e = WIFI_CONFIG_AP_STOP /\ xHandle = 0)
            => (tasks' = tasks /\ ~LedLit')]_vars

\* C24 witness: the indicator was started and stopped, then the connection
\* was made and lost; the server was initialised once
C24_Witness ==
  /\ wifiEvents = <<WIFI_CONFIG_AP_START, WIFI_CONFIG_AP_STOP,
                    WIFI_CONFIG_CONNECTED, WIFI_CONFIG_DISCONNECTED>>
  /\ serverInits = 1
  /\ StationTasks = {}
  /\ ~LedLit

IsPrefix(s, t) == Len(s) <= Len(t) /\ \A k \in 1..Len(s) : s[k] = t[k]

\* Scenario A and what it publishes on channel b
ScenarioA == <<button_event_single_press, button_event_single_press,
               button_event_double_press, button_event_tripple_press>>
ScenarioANotifications(b) == <<(<<b, 0>>), (<<b, 0>>), (<<b, 2>>)>>

\* C25: while the gestures Single, Single, Double, Triple arrive on one
\* channel, the notifications published are, in this order, those of the
\* first Single, the second Single and the Triple (the Double publishes
\* nothing) and no reset is invoked; when the Triple has been handled all
\* three have been published and the counter is 0.
C25_ScenarioA ==
  \A b \in LoggedChannels :
    (/\ IsPrefix(gestures, ScenarioA)
     /\ \A k \in 1..Len(pressLog) : pressLog[k] = b)
    => /\ IsPrefix(notifyLog, ScenarioANotifications(b))
       /\ Len(notifyLog) >= Cardinality({k \in 1..Len(gestures) :
                                           Handled(k) /\ ~IsDouble(k)})
       /\ resetLog = {}
       /\ (gestures = ScenarioA /\ cb.pc = "idle")
            => (notifyLog = ScenarioANotifications(b) /\ resetSequenceCount = 0)

\* C25 witness: scenario A has been handled to its end on channel 1
C25_Witness ==
  /\ gestures = ScenarioA
  /\ pressLog = <<1, 1, 1, 1>>
  /\ cb.pc = "idle"
  /\ Len(notifyLog) = 3

\* What a gesture of the paired variants publishes: <<value>>, or <<>> for
\* nothing
PairedPublication(side, event) ==
  CASE side = "on" /\ event = button_event_single_press -> <<0>>
    [] side = "on" /\ event = button_event_long_press -> <<2>>
    [] side = "off" /\ event = button_event_single_press -> <<1>>
    [] OTHER -> <<>>

\* C26: in the paired variants a callback publishes 0 for a single press of
\* the ON button, 2 for a long press of the ON button, 1 for a single press
\* of the OFF button and nothing for any other gesture; it invokes the reset
\* exactly for a long press of the OFF button.
C26_PairedMapping ==
  [][gestures' # gestures =>
       LET g == gestures'[Len(gestures')]
           pub == PairedPublication(g[1], g[2])
       IN /\ IF pub = <<>>
               THEN notifyLog' = notifyLog
               ELSE /\ Len(notifyLog') = Len(notifyLog) + 1
                    /\ notifyLog'[Len(notifyLog')][2] = pub[1]
          /\ (resetLog' # resetLog)
               <=> (g[1] = "off" /\ g[2] = button_event_long_press)]_vars

\* C27: in an uninterrupted run of double presses of any length, longer than
\* 255 included, resetConfig() is called at most once.
C27_AtMostOneResetPerRun == runResets <= 1

\* C28: where a long press calls the reset directly, at most one reset task
\* exists at any time, and wifi_config_reset and homekit_server_reset are each
\* called at most once before the restart, whatever long presses arrive
\* while a reset task is running.
C28_OneResetInFlight ==
  /\ Cardinality(TasksOf("reset")) <= 1
  /\ wifiResets <= 1
  /\ hkResets <= 1

\* C29: the stored station-mode handle is non-NULL only if it refers to a
\* live station-mode task, and every live station-mode task is the one the
\* handle refers to.
C29_HandleTracksLiveTask ==
  /\ xHandle # 0 => tasks[xHandle].kind = "station"
  /\ \A t \in StationTasks : t = xHandle

\* C30: whenever no finite feedback task and no station-mode indicator task
\* exists, the LED is off: the colour last written is black, and on a mono
\* LED the pin is low and PWM is not running.
C30_DarkWhenIdle ==
  (FeedbackTasks = {} /\ UtilsStationTasks = {})
    => (/\ ledShown = LED_BLACK
        /\ ~ledIsNeoPixel => (utilsPin = 0 /\ ~pwmRunning))

\* C30 witness: the indicator was started and stopped, an identify pattern
\* and a pattern of one cycle have run on a colour LED, and nothing is left
C30_Witness ==
  /\ ledIsNeoPixel
  /\ wifiEvents = <<WIFI_CONFIG_AP_START, WIFI_CONFIG_AP_STOP>>
  /\ identifyDone = 1
  /\ \E r \in blinkLog : r.cycles = 1
  /\ FeedbackTasks = {} /\ UtilsStationTasks = {}
  /\ ledShown = LED_BLACK

\* C31 (as claimed): the slot bound to each button is the characteristic of
\* exactly one exposed switch service, every switch service refers to a slot
\* inside the buttons array, and so every notification a button publishes
\* goes to the characteristic of exactly one exposed service.
C31_SlotsMatchServices ==
  /\ \A i \in Channels : Cardinality(ServicesOf(ButtonSlot(i))) = 1
  /\ \A s \in SwitchServices : SWITCH_SERVICE(s) \in Channels
  /\ \A k \in 1 .. Len(notifyLog) :
       Cardinality(ServicesOf(notifyLog[k][1])) = 1

\* A step that handles a single press of the Sonoff button
SinglePressStep ==
  /\ Len(gestures') = Len(gestures) + 1
  /\ gestures'[Len(gestures')] = button_event_single_press

\* C32: after every handled single press and HomeKit write the relay output
\* equals the value of switch_on; a single press inverts the value and
\* publishes exactly one notification, which carries the new value, and no
\* other step publishes; a single press that follows a single press with no
\* write in between puts the relay back to the level before the first.
C32_RelayFollowsSwitch ==
  /\ pinRelay = switch_on
  /\ [][/\ pinRelay' = switch_on'
        /\ IF SinglePressStep
             THEN /\ switch_on' = ~switch_on
                  /\ notifyLog' = Append(notifyLog, <<"switch_on", switch_on'>>)
                  /\ lastToggle # <<>> => pinRelay' = lastToggle[1]
             ELSE notifyLog' = notifyLog]_vars

\* C32 witness: the switch was written on, then pressed twice: off and on again
C32_Witness ==
  /\ notifyLog = <<<<"switch_on", FALSE>>, <<"switch_on", TRUE>>>>
  /\ lastToggle = <<FALSE>>
  /\ pinRelay /\ switch_on

\* No caller is inside setLEDColor
NoCallInProgress == \A c \in Callers : ledCall[c].pc \in {"idle", "returned"}

\* A step in which a call setLEDColor(LED_BLACK) of some caller returns
BlackReturns ==
  \E c \in Callers : /\ ledCall[c].pc \notin {"idle", "returned"}
                     /\ ledCall'[c].pc = "returned"
                     /\ ledCall'[c].color = LED_BLACK

\* C33 (as claimed): on a mono LED, whenever no call of setLEDColor is in
\* progress performingPWM is true exactly when PWM has been started and not
\* stopped; PWM is never started while it is running; and when a call
\* setLEDColor(LED_BLACK) returns, PWM is stopped and the pin is low.
C33_PWMFlagTracksDriver ==
  /\ performingPWM = pwmRunning
  /\ [][/\ NoCallInProgress' => (performingPWM' = pwmRunning')
        /\ ~pwmRestarted'
        /\ BlackReturns => (~pwmRunning' /\ utilsPin' = 0)]_vars

====
